---- MODULE Spec2Model ----
(***************************************************************************)
(* A model of src/backend/access/zedstore/zedstore_btree.c: one attribute's *)
(* B-tree (pages, metapage root pointer), the inserter with leaf            *)
(* compression, leaf and internal splits and new-root creation, the forward *)
(* scan driver, the delete probe and the last-TID probe.                    *)
(*                                                                         *)
(* Threads take steps at the places where the code can block on a buffer    *)
(* latch.  Everything a thread does between two blocking latch acquisitions *)
(* is one action.  The metapage latch is only ever held inside one action   *)
(* (nobody waits for another latch while holding it except for a freshly    *)
(* allocated buffer), so metapage accesses are atomic here.                 *)
(*                                                                         *)
(* Page geometry is scaled down: a page has BLCKSZ size units, an          *)
(* uncompressed item takes ItemSz units, offsets run 1..MaxOffset and an    *)
(* internal page holds InternalCap downlinks.  The scaled numbers keep the  *)
(* relation of the real ones: a leaf never holds more items than there are  *)
(* offsets in one TID block.                                                *)
(***************************************************************************)
EXTENDS Integers, Sequences, FiniteSets, TLC

\* ---------------------------------------------------------------- bounds
\* number of zsbt_insert calls explored
MaxInserts == 10
\* the codec's longest run; the codecs explored are 0 (refuses every item)
\* up to MaxRun
MaxRun == 3
\* times the delete probe may re-latch the same page before the model stops counting
MaxSpin == 2
\* the largest block number among the keys zsbt_binsrch_internal is applied to
BinsrchMaxKey == 4
\* the most downlinks on the internal page that zsbt_split_internal is applied to
SplitMaxItems == 11
\* number of zsbt_insert calls explored beside a reading session
MixInserts == MaxInserts \div 2

\* ------------------------------------------ program constants, scaled down
\* size units of one page
BLCKSZ == 7
\* MAXALIGN(itemsz) of an uncompressed item, in size units
ItemSz == 2
\* fixed part of a compressed run's size; each item in a run adds one unit
CompHdr == 2
\* largest offset of a TID (0xFFFF)
MaxOffset == 4
\* downlinks an internal page holds before ZSBtreeInternalPageIsFull
InternalCap == 3

\* ----------------------------------------------------- program constants
InvalidBlockNumber == -1
ZS_FOLLOW_RIGHT == 1
FirstOffsetNumber == 1
ZS_META_BLK == 0

MaxBlockNumber == MaxInserts + 3
MaxPages == 2 * MaxInserts + 2

Procs == {1, 2, 3}
NoTid == <<0, 0>>

\* ------------------------------------------------------------------ TIDs
ItemPointerCompare(a, b) ==
    IF a[1] < b[1] THEN -1
    ELSE IF a[1] > b[1] THEN 1
    ELSE IF a[2] < b[2] THEN -1
    ELSE IF a[2] > b[2] THEN 1
    ELSE 0

ItemPointerIncrement(t) ==
    IF t[2] = MaxOffset THEN <<t[1] + 1, 1>> ELSE <<t[1], t[2] + 1>>

MinTid == <<0, 1>>
MaxTid == <<MaxBlockNumber, MaxOffset>>
\* faulty variant: the probe for the insertion target is the smallest key
LeftmostKey == <<0, 1>>
RightmostKey == <<MaxBlockNumber, MaxOffset - 1>>

\* -------------------------------------------------------- flags (one bit)
\* zs_flags holds the single bit ZS_FOLLOW_RIGHT, so flags is 0 or 1
BitAnd(f, m) == IF f = 1 /\ m = 1 THEN 1 ELSE 0
BitOr(f, m) == IF f = 1 \/ m = 1 THEN 1 ELSE 0
BitAndNot(f, m) == IF f = 1 /\ m # 1 THEN 1 ELSE 0

\* ----------------------------------------------------------------- items
\* an uncompressed leaf item
RawItem(tid, datum) ==
    [tid |-> tid, lasttid |-> tid, comp |-> FALSE, size |-> ItemSz,
     datum |-> datum, run |-> <<>>]

CompSz(n) == CompHdr + n

\* zs_compress_finish: the run of raw items as one compressed item
CompressFinish(cur) ==
    [tid |-> cur[1].tid, lasttid |-> cur[Len(cur)].tid, comp |-> TRUE,
     size |-> CompSz(Len(cur)), datum |-> 0, run |-> cur]

\* zs_compress_add after zs_compress_begin(maxsize): the encoder takes the item
\* when the run stays within the codec's run length and its output fits
CompressAdd(crun, cur, maxsize) ==
    /\ Len(cur) + 1 <= crun
    /\ CompSz(Len(cur) + 1) <= maxsize

RECURSIVE SumSizes(_)
SumSizes(items) ==
    IF items = <<>> THEN 0 ELSE items[1].size + SumSizes(Tail(items))

PageGetFreeSpace(items) == BLCKSZ - SumSizes(items)

\* the (tid, datum) pairs an item stands for
RECURSIVE Expand(_)
Expand(items) ==
    IF items = <<>> THEN <<>>
    ELSE (IF items[1].comp
          THEN [k \in 1..Len(items[1].run) |->
                   <<items[1].run[k].tid, items[1].run[k].datum>>]
          ELSE << <<items[1].tid, items[1].datum>> >>) \o Expand(Tail(items))

\* ----------------------------------------------------------------- pages
NoPage ==
    [lokey |-> NoTid, hikey |-> NoTid, next |-> InvalidBlockNumber,
     level |-> -1, flags |-> 0, items |-> <<>>]

\* the first root: an empty leaf covering every key
EmptyRoot ==
    [lokey |-> MinTid, hikey |-> MaxTid, next |-> InvalidBlockNumber,
     level |-> 0, flags |-> 0, items |-> <<>>]

\* ------------------------------------------------------- binary search
RECURSIVE BinsrchLoop(_, _, _, _)
BinsrchLoop(key, arr, low, high) ==
    IF high > low
    THEN LET mid == low + (high - low) \div 2
         IN IF ItemPointerCompare(key, arr[mid + 1].tid) >= 0
            THEN BinsrchLoop(key, arr, mid + 1, high)
            ELSE BinsrchLoop(key, arr, low, mid)
    ELSE low - 1

\* faulty variant of one turn of the loop: an element equal to the key sends
\* the search to the left
BinsrchTurnStrict(key, arr, low, high) ==
    LET mid == low + (high - low) \div 2
    IN IF ItemPointerCompare(key, arr[mid + 1].tid) > 0
       THEN [low |-> mid + 1, high |-> high]
       ELSE [low |-> low, high |-> mid]

\* one turn of the loop of zsbt_binsrch_internal
BinsrchTurn(key, arr, low, high) ==
    LET mid == low + (high - low) \div 2
    IN IF ItemPointerCompare(key, arr[mid + 1].tid) >= 0
       THEN [low |-> mid + 1, high |-> high]
       ELSE [low |-> low, high |-> mid]

\* index (0-based, as in the code) of the rightmost downlink with tid <= key
zsbt_binsrch_internal(key, arr) == BinsrchLoop(key, arr, 0, Len(arr))

\* ----------------------------------------------------- leaf compression
\* add newitem to the scratch page, or fail when it does not fit
ScratchAdd(st, newitem) ==
    IF ~st.success THEN st
    ELSE IF PageGetFreeSpace(st.out) < newitem.size
    THEN [st EXCEPT !.success = FALSE]
    ELSE [st EXCEPT !.out = Append(st.out, newitem)]

\* faulty variant of the loop: an item the encoder rejects after others is not
\* offered again once the run is flushed
RECURSIVE CompressLoopNoRetry(_, _, _, _, _)
CompressLoopNoRetry(crun, orig, i, st, maxsize) ==
    IF ~st.success THEN st
    ELSE IF i > Len(orig) THEN
        IF Len(st.cur) > 0
        THEN ScratchAdd([st EXCEPT !.cur = <<>>], CompressFinish(st.cur))
        ELSE st
    ELSE LET item == orig[i] IN
        IF item.comp THEN
            LET s1 == IF Len(st.cur) > 0
                      THEN ScratchAdd([st EXCEPT !.cur = <<>>], CompressFinish(st.cur))
                      ELSE st
            IN CompressLoopNoRetry(crun, orig, i + 1, ScratchAdd(s1, item), maxsize)
        ELSE
            LET msz == IF Len(st.cur) = 0 THEN PageGetFreeSpace(st.out) ELSE maxsize
            IN IF CompressAdd(crun, st.cur, msz)
               THEN CompressLoopNoRetry(crun, orig, i + 1,
                                        [st EXCEPT !.cur = Append(st.cur, item)], msz)
               ELSE IF Len(st.cur) > 0
               THEN CompressLoopNoRetry(crun, orig, i + 1,
                        ScratchAdd([st EXCEPT !.cur = <<>>], CompressFinish(st.cur)), msz)
               ELSE CompressLoopNoRetry(crun, orig, i + 1, ScratchAdd(st, item), msz)

\* the loop of zsbt_compress_leaf over the original items, i the next offset;
\* cur is what the compressor holds, maxsize what zs_compress_begin was given
RECURSIVE CompressLoop(_, _, _, _, _)
CompressLoop(crun, orig, i, st, maxsize) ==
    IF ~st.success THEN st
    ELSE IF i > Len(orig) THEN
        IF Len(st.cur) > 0
        THEN ScratchAdd([st EXCEPT !.cur = <<>>], CompressFinish(st.cur))
        ELSE st
    ELSE LET item == orig[i] IN
        IF item.comp THEN
            LET s1 == IF Len(st.cur) > 0
                      THEN ScratchAdd([st EXCEPT !.cur = <<>>], CompressFinish(st.cur))
                      ELSE st
            IN CompressLoop(crun, orig, i + 1, ScratchAdd(s1, item), maxsize)
        ELSE
            LET msz == IF Len(st.cur) = 0 THEN PageGetFreeSpace(st.out) ELSE maxsize
            IN IF CompressAdd(crun, st.cur, msz)
               THEN CompressLoop(crun, orig, i + 1,
                                 [st EXCEPT !.cur = Append(st.cur, item)], msz)
               ELSE IF Len(st.cur) > 0
               THEN CompressLoop(crun, orig, i,
                        ScratchAdd([st EXCEPT !.cur = <<>>], CompressFinish(st.cur)), msz)
               ELSE CompressLoop(crun, orig, i + 1, ScratchAdd(st, item), msz)

\* faulty variant: the scratch page replaces the page also when repacking failed
CompressLeafKeepsScratch(crun, items) ==
    LET st == CompressLoop(crun, items, FirstOffsetNumber,
                           [success |-> TRUE, out |-> <<>>, cur |-> <<>>], 0)
    IN [success |-> st.success, items |-> st.out]

\* zsbt_compress_leaf: [success, items]; the page keeps its items on failure
zsbt_compress_leaf(crun, items) ==
    LET st == CompressLoop(crun, items, FirstOffsetNumber,
                           [success |-> TRUE, out |-> <<>>, cur |-> <<>>], 0)
    IN [success |-> st.success, items |-> IF st.success THEN st.out ELSE items]

\* ------------------------------------------------------------ leaf split
\* the copy loop of zsbt_split_leaf: [left, right] item arrays
RECURSIVE SplitCopy(_, _, _, _, _, _, _)
SplitCopy(orig, i, lastleftoff, newitem, newitemonleft, newitemoff, acc) ==
    IF i > Len(orig)
    THEN IF i = newitemoff
         THEN [acc EXCEPT !.right = <<newitem>> \o acc.right]
         ELSE acc
    ELSE LET a1 == IF i = newitemoff
                   THEN IF newitemonleft
                        THEN [acc EXCEPT !.left = Append(acc.left, newitem)]
                        ELSE [acc EXCEPT !.right = Append(acc.right, newitem)]
                   ELSE acc
             a2 == IF i <= lastleftoff
                   THEN [a1 EXCEPT !.left = Append(a1.left, orig[i])]
                   ELSE [a1 EXCEPT !.right = Append(a1.right, orig[i])]
         IN SplitCopy(orig, i + 1, lastleftoff, newitem, newitemonleft, newitemoff, a2)

\* the split point of a leaf: the block after the old page's lokey block
LeafSplitTid(lokey) == <<lokey[1] + 1, 1>>

\* faulty variant: the left half keeps the hikey the page had before the split
SplitLeafKeepsHikey(pgs, nb, buf, lastleftoff, newitem, newitemonleft, newitemoff) ==
    LET orig == pgs[buf]
        rightblkno == nb + 1
        splittid == LeafSplitTid(orig.lokey)
        halves == SplitCopy(orig.items, FirstOffsetNumber, lastleftoff, newitem,
                            newitemonleft, newitemoff, [left |-> <<>>, right |-> <<>>])
        rightpage == [lokey |-> splittid, hikey |-> orig.hikey, next |-> orig.next,
                      level |-> 0, flags |-> 0, items |-> halves.right]
        leftpage == [orig EXCEPT !.next = rightblkno,
                                 !.flags = BitOr(orig.flags, ZS_FOLLOW_RIGHT),
                                 !.items = halves.left]
    IN [pages |-> [pgs EXCEPT ![buf] = leftpage, ![rightblkno] = rightpage],
        nblocks |-> rightblkno,
        rightblkno |-> rightblkno,
        splittid |-> splittid,
        assertok |-> orig.level = 0 /\ BitAnd(orig.flags, ZS_FOLLOW_RIGHT) = 0]

\* zsbt_split_leaf up to the call of zsbt_insert_downlink: the right page is
\* block nb + 1; the left page keeps its block and stays latched
zsbt_split_leaf(pgs, nb, buf, lastleftoff, newitem, newitemonleft, newitemoff) ==
    LET orig == pgs[buf]
        rightblkno == nb + 1
        splittid == LeafSplitTid(orig.lokey)
        halves == SplitCopy(orig.items, FirstOffsetNumber, lastleftoff, newitem,
                            newitemonleft, newitemoff, [left |-> <<>>, right |-> <<>>])
        rightpage == [lokey |-> splittid, hikey |-> orig.hikey, next |-> orig.next,
                      level |-> 0, flags |-> 0, items |-> halves.right]
        leftpage == [orig EXCEPT !.next = rightblkno, !.hikey = splittid,
                                 !.flags = BitOr(orig.flags, ZS_FOLLOW_RIGHT),
                                 !.items = halves.left]
    IN [pages |-> [pgs EXCEPT ![buf] = leftpage, ![rightblkno] = rightpage],
        nblocks |-> rightblkno,
        rightblkno |-> rightblkno,
        splittid |-> splittid,
        assertok |-> orig.level = 0 /\ BitAnd(orig.flags, ZS_FOLLOW_RIGHT) = 0]

\* faulty variant: the TID is read off the first item of the leaf
NextTidFromFirstItem(page) ==
    IF Len(page.items) >= FirstOffsetNumber
    THEN ItemPointerIncrement(page.items[FirstOffsetNumber].tid)
    ELSE page.lokey

\* faulty variant: an empty leaf yields the TID after its lokey
NextTidPastLokey(page) ==
    IF Len(page.items) >= FirstOffsetNumber
    THEN ItemPointerIncrement(page.items[Len(page.items)].tid)
    ELSE ItemPointerIncrement(page.lokey)

\* the TID zsbt_insert_to_leaf and zsbt_get_last_tid read off a leaf: the last
\* item's t_tid plus one, or the page's lokey when the page is empty
NextTidOnLeaf(page) ==
    IF Len(page.items) >= FirstOffsetNumber
    THEN ItemPointerIncrement(page.items[Len(page.items)].tid)
    ELSE page.lokey

\* zsbt_insert_to_leaf on latched leaf buf: the item either goes on the page
\* (after compression when needed) or the leaf is split with the new item as
\* the first item of the right half
zsbt_insert_to_leaf(crun, pgs, nb, buf, datum) ==
    LET page == pgs[buf]
        tid == NextTidOnLeaf(page)
        item == RawItem(tid, datum)
        comp == IF PageGetFreeSpace(page.items) < item.size
                THEN zsbt_compress_leaf(crun, page.items)
                ELSE [success |-> FALSE, items |-> page.items]
        page2 == [page EXCEPT !.items = comp.items]
        pgs2 == [pgs EXCEPT ![buf] = page2]
        maxoff == Len(page2.items)
    IN IF PageGetFreeSpace(page2.items) >= item.size
       THEN [split |-> FALSE, tid |-> tid, compressed |-> comp.success,
             pages |-> [pgs2 EXCEPT ![buf].items = Append(page2.items, item)],
             nblocks |-> nb, rightblkno |-> InvalidBlockNumber, splittid |-> NoTid,
             assertok |-> TRUE]
       ELSE LET sp == zsbt_split_leaf(pgs2, nb, buf, maxoff, item, FALSE, maxoff + 1)
            IN [split |-> TRUE, tid |-> tid, compressed |-> comp.success,
                pages |-> sp.pages, nblocks |-> sp.nblocks,
                rightblkno |-> sp.rightblkno, splittid |-> sp.splittid,
                assertok |-> sp.assertok]

\* ----------------------------------------------------------- new root
\* faulty variant: the new root is put one level too high
NewrootSkipsLevel(pgs, nb, level, key1, blk1, key2, blk2, leftchild) ==
    LET blk == nb + 1
        page == [lokey |-> MinTid, hikey |-> MaxTid, next |-> InvalidBlockNumber,
                 level |-> level + 1, flags |-> 0,
                 items |-> <<[tid |-> key1, childblk |-> blk1],
                             [tid |-> key2, childblk |-> blk2]>>]
    IN [pages |-> [pgs EXCEPT ![blk] = page],
        nblocks |-> blk,
        root |-> blk]

Downlink(tid, blk) == [tid |-> tid, childblk |-> blk]

\* what zsbt_newroot leaves in the left child's flags
NewrootLeftFlags(flags) == BitAnd(flags, ZS_FOLLOW_RIGHT)

\* zsbt_newroot: a fresh root block nb + 1 with two downlinks; the metapage
\* then names it
zsbt_newroot(pgs, nb, level, key1, blk1, key2, blk2, leftchild) ==
    LET blk == nb + 1
        page == [lokey |-> MinTid, hikey |-> MaxTid, next |-> InvalidBlockNumber,
                 level |-> level, flags |-> 0,
                 items |-> <<Downlink(key1, blk1), Downlink(key2, blk2)>>]
    IN [pages |-> [pgs EXCEPT ![blk] = page,
                              ![leftchild].flags = NewrootLeftFlags(pgs[leftchild].flags)],
        nblocks |-> blk,
        root |-> blk]

\* -------------------------------------------------------- internal split
ZSBtreeInternalPageIsFull(page) == Len(page.items) >= InternalCap

\* a split in the middle of the page instead of at nine tenths
SplitPointHalf(n) == n \div 2

\* splitpoint = orignitems * 0.9, truncated
SplitPoint(n) == (n * 9) \div 10

\* the copy loop of zsbt_split_internal; offsets are 0-based as in the code
RECURSIVE InternalCopy(_, _, _, _, _, _, _)
InternalCopy(orig, i, splitpoint, newitem, newitemonleft, newoff, acc) ==
    IF i >= Len(orig)
    THEN IF i <= newoff
         THEN [acc EXCEPT !.right = Append(acc.right, newitem)]
         ELSE acc
    ELSE LET a1 == IF i = newoff
                   THEN IF newitemonleft
                        THEN [acc EXCEPT !.left = Append(acc.left, newitem)]
                        ELSE [acc EXCEPT !.right = Append(acc.right, newitem)]
                   ELSE acc
             a2 == IF i < splitpoint
                   THEN [a1 EXCEPT !.left = Append(a1.left, orig[i + 1])]
                   ELSE [a1 EXCEPT !.right = Append(a1.right, orig[i + 1])]
         IN InternalCopy(orig, i + 1, splitpoint, newitem, newitemonleft, newoff, a2)

\* zsbt_split_internal up to its recursive call of zsbt_insert_downlink: the
\* parent leftbuf is split, the child's FOLLOW_RIGHT is cleared
zsbt_split_internal(pgs, nb, leftbuf, childbuf, newoff, newkey, childblk) ==
    LET orig == pgs[leftbuf]
        rightblkno == nb + 1
        splitpoint == SplitPoint(Len(orig.items))
        splittid == orig.items[splitpoint + 1].tid
        newitemonleft == ItemPointerCompare(newkey, splittid) < 0
        halves == InternalCopy(orig.items, 0, splitpoint, Downlink(newkey, childblk),
                               newitemonleft, newoff, [left |-> <<>>, right |-> <<>>])
        rightpage == [lokey |-> splittid, hikey |-> orig.hikey, next |-> orig.next,
                      level |-> orig.level, flags |-> 0, items |-> halves.right]
        leftpage == [orig EXCEPT !.next = rightblkno, !.hikey = splittid,
                                 !.flags = BitOr(orig.flags, ZS_FOLLOW_RIGHT),
                                 !.items = halves.left]
    IN [pages |-> [pgs EXCEPT ![leftbuf] = leftpage, ![rightblkno] = rightpage,
                              ![childbuf].flags =
                                  BitAndNot(pgs[childbuf].flags, ZS_FOLLOW_RIGHT)],
        nblocks |-> rightblkno,
        rightblkno |-> rightblkno,
        splittid |-> splittid,
        assertok |-> orig.level > 0 /\ BitAnd(orig.flags, ZS_FOLLOW_RIGHT) = 0]

\* ----------------------------------------------------------- descent
\* faulty variant: on an internal page the descent takes the last downlink
DescendVisitLastDownlink(page, nextlevel, key) ==
    LET lvl == IF nextlevel = -1 THEN page.level ELSE nextlevel
    IN IF page.level # lvl
       THEN [kind |-> "error", next |-> InvalidBlockNumber, nextlevel |-> lvl]
       ELSE IF page.level = 0
       THEN [kind |-> "leaf", next |-> InvalidBlockNumber, nextlevel |-> lvl]
       ELSE IF ItemPointerCompare(key, page.hikey) >= 0
       THEN IF page.next = InvalidBlockNumber
            THEN [kind |-> "error", next |-> InvalidBlockNumber, nextlevel |-> lvl]
            ELSE [kind |-> "right", next |-> page.next, nextlevel |-> lvl]
       ELSE [kind |-> "down", next |-> page.items[Len(page.items)].childblk,
             nextlevel |-> lvl - 1]

\* one turn of the loop of zsbt_descend on the latched page
DescendVisit(page, nextlevel, key) ==
    LET lvl == IF nextlevel = -1 THEN page.level ELSE nextlevel
    IN IF page.level # lvl
       THEN [kind |-> "error", next |-> InvalidBlockNumber, nextlevel |-> lvl]
       ELSE IF page.level = 0
       THEN [kind |-> "leaf", next |-> InvalidBlockNumber, nextlevel |-> lvl]
       ELSE IF ItemPointerCompare(key, page.hikey) >= 0
       THEN IF page.next = InvalidBlockNumber
            THEN [kind |-> "error", next |-> InvalidBlockNumber, nextlevel |-> lvl]
            ELSE [kind |-> "right", next |-> page.next, nextlevel |-> lvl]
       ELSE LET itemno == zsbt_binsrch_internal(key, page.items)
            IN IF itemno < 0
               THEN [kind |-> "error", next |-> InvalidBlockNumber, nextlevel |-> lvl]
               ELSE [kind |-> "down", next |-> page.items[itemno + 1].childblk,
                     nextlevel |-> lvl - 1]

\* one turn of the loop of zsbt_find_downlink on the latched page
FindDownlinkVisit(page, nextlevel, key, childblk, level) ==
    LET lvl == IF nextlevel = -1 THEN page.level ELSE nextlevel
    IN IF page.level # lvl \/ page.level <= level
       THEN [kind |-> "error", next |-> InvalidBlockNumber, nextlevel |-> lvl, itemno |-> -1]
       ELSE IF ItemPointerCompare(key, page.hikey) >= 0
       THEN IF page.next = InvalidBlockNumber
            THEN [kind |-> "error", next |-> InvalidBlockNumber, nextlevel |-> lvl,
                  itemno |-> -1]
            ELSE [kind |-> "right", next |-> page.next, nextlevel |-> lvl, itemno |-> -1]
       ELSE LET itemno == zsbt_binsrch_internal(key, page.items)
            IN IF itemno < 0
               THEN [kind |-> "error", next |-> InvalidBlockNumber, nextlevel |-> lvl,
                     itemno |-> -1]
               ELSE IF page.level = level + 1
               THEN IF page.items[itemno + 1].childblk # childblk
                    THEN [kind |-> "error", next |-> InvalidBlockNumber,
                          nextlevel |-> lvl, itemno |-> itemno]
                    ELSE [kind |-> "found", next |-> InvalidBlockNumber,
                          nextlevel |-> lvl, itemno |-> itemno]
               ELSE [kind |-> "down", next |-> page.items[itemno + 1].childblk,
                     nextlevel |-> lvl - 1, itemno |-> itemno]

\* insert into a downlink array at 0-based position itemno (the memmove)
\* faulty variant: the new downlink goes before the left page's downlink
InsertBeforeAt(arr, itemno, item) ==
    SubSeq(arr, 1, itemno - 1) \o <<item>> \o SubSeq(arr, itemno, Len(arr))

InsertAt(arr, itemno, item) ==
    SubSeq(arr, 1, itemno) \o <<item>> \o SubSeq(arr, itemno + 1, Len(arr))

\* zsbt_insert_downlink once the parent is latched: the sanity checks, then
\* either the downlink goes on the parent or the parent is split
InsertDownlinkAt(pgs, nb, leftblkno, parentblk, rightlokey, rightblkno) ==
    LET left == pgs[leftblkno]
        parent == pgs[parentblk]
        itemno == zsbt_binsrch_internal(rightlokey, parent.items)
    IN IF \/ itemno < 1
          \/ parent.items[itemno + 1].tid # left.lokey
          \/ parent.items[itemno + 1].childblk # leftblkno
       THEN [kind |-> "error", pages |-> pgs, nblocks |-> nb,
             rightblkno |-> InvalidBlockNumber, splittid |-> NoTid, assertok |-> TRUE]
       ELSE IF ZSBtreeInternalPageIsFull(parent)
       THEN LET sp == zsbt_split_internal(pgs, nb, parentblk, leftblkno, itemno + 1,
                                          rightlokey, rightblkno)
            IN [kind |-> "split", pages |-> sp.pages, nblocks |-> sp.nblocks,
                rightblkno |-> sp.rightblkno, splittid |-> sp.splittid,
                assertok |-> sp.assertok]
       ELSE [kind |-> "done",
             pages |-> [pgs EXCEPT
                 ![parentblk].items =
                     InsertAt(parent.items, itemno + 1, Downlink(rightlokey, rightblkno)),
                 ![leftblkno].flags = BitAndNot(left.flags, ZS_FOLLOW_RIGHT)],
             nblocks |-> nb, rightblkno |-> InvalidBlockNumber, splittid |-> NoTid,
             assertok |-> TRUE]

\* ------------------------------------------------------------- scanning
\* faulty variant: the walk stops only at items strictly above tid
RECURSIVE FirstStopStrict(_, _, _)
FirstStopStrict(items, off, tid) ==
    IF off > Len(items) THEN 0
    ELSE IF items[off].comp /\ ItemPointerCompare(items[off].lasttid, tid) > 0 THEN off
    ELSE IF ~items[off].comp /\ ItemPointerCompare(items[off].tid, tid) > 0 THEN off
    ELSE FirstStopStrict(items, off + 1, tid)

\* faulty variant: the walk stops at every compressed run, whatever its lasttid
RECURSIVE FirstStopAnyRun(_, _, _)
FirstStopAnyRun(items, off, tid) ==
    IF off > Len(items) THEN 0
    ELSE IF items[off].comp THEN off
    ELSE IF ~items[off].comp /\ ItemPointerCompare(items[off].tid, tid) >= 0 THEN off
    ELSE FirstStopAnyRun(items, off + 1, tid)

\* index of the first item on the page that a walk looking for tid stops at:
\* a compressed run with lasttid >= tid or an uncompressed item with tid >= tid;
\* 0 when the walk falls off the page
RECURSIVE FirstStop(_, _, _)
FirstStop(items, off, tid) ==
    IF off > Len(items) THEN 0
    ELSE IF items[off].comp /\ ItemPointerCompare(items[off].lasttid, tid) >= 0 THEN off
    ELSE IF ~items[off].comp /\ ItemPointerCompare(items[off].tid, tid) >= 0 THEN off
    ELSE FirstStop(items, off + 1, tid)

\* faulty variant: the decompressed stream is read from its first item
StreamFromFirst(stream, nexttid) == stream

\* the decompressed stream with the items below nexttid read and dropped
RECURSIVE StreamSkip(_, _)
StreamSkip(stream, nexttid) ==
    IF stream = <<>> THEN <<>>
    ELSE IF ItemPointerCompare(stream[1].tid, nexttid) >= 0 THEN stream
    ELSE StreamSkip(Tail(stream), nexttid)

\* the leaf chain from the first leaf (block 1 is the root that the metapage
\* service creates and stays the leftmost leaf), as (tid, datum) pairs
RECURSIVE ChainContents(_, _, _)
ChainContents(pgs, blk, fuel) ==
    IF blk = InvalidBlockNumber \/ fuel = 0 THEN <<>>
    ELSE Expand(pgs[blk].items) \o ChainContents(pgs, pgs[blk].next, fuel - 1)

\* ------------------------------------------------------------- the state
VARIABLES
    meta,        \* the metapage's root block for the attribute
    nblocks,     \* blocks 1..nblocks are allocated
    pages,       \* block -> page
    codecRun,    \* the codec in use: its longest run (0: refuses every item)
    pc,          \* thread -> where it is
    loc,         \* thread -> locals of the call in progress
    held,        \* thread -> the buffers it holds latched, in the order taken
    scan,        \* the ZSBtreeScan object
    scanLog,     \* what the scan was begun on, what it returned, the pins it holds
    insLog,      \* (tid, datum) of every zsbt_insert that returned, in order
    nStarted,    \* zsbt_insert calls begun
    ret,         \* what the call that returned last returned
    spin,        \* times the delete probe in progress re-latched the same page
    assertFail   \* an Assert() of the code did not hold

vars == <<meta, nblocks, pages, codecRun, pc, loc, held, scan, scanLog, insLog,
          nStarted, ret, spin, assertFail>>

IdleLoc ==
    [op |-> "none", next |-> InvalidBlockNumber, nextlevel |-> -1, key |-> NoTid,
     buf |-> InvalidBlockNumber, datum |-> 0, tid |-> NoTid, rkey |-> NoTid,
     rblk |-> InvalidBlockNumber, fresh |-> FALSE, peak |-> 0]

\* fresh: the call found the attribute without a root; oldroot: the root that
\* the call split and put under a new root; peak: the most buffer latches the
\* call held at once
NoRet ==
    [op |-> "none", ok |-> TRUE, found |-> FALSE, tid |-> NoTid, datum |-> 0,
     fresh |-> FALSE, oldroot |-> InvalidBlockNumber, peak |-> 0]

NoScan ==
    [state |-> "none", active |-> FALSE, lastbuf |-> InvalidBlockNumber,
     nexttid |-> NoTid, has_decompressed |-> FALSE, stream |-> <<>>]

NoScanLog ==
    [start |-> NoTid, snap |-> <<>>, out |-> <<>>, nins |-> 0, pins |-> 0,
     fresh |-> FALSE]

Init ==
    /\ meta = InvalidBlockNumber
    /\ nblocks = 0
    /\ pages = [b \in 1..MaxPages |-> NoPage]
    /\ codecRun \in 0..MaxRun
    /\ pc = [p \in Procs |-> "idle"]
    /\ loc = [p \in Procs |-> IdleLoc]
    /\ held = [p \in Procs |-> <<>>]
    /\ scan = NoScan
    /\ scanLog = NoScanLog
    /\ insLog = <<>>
    /\ nStarted = 0
    /\ ret = NoRet
    /\ spin = 0
    /\ assertFail = FALSE

Range(f) == {f[i] : i \in DOMAIN f}

\* LockBuffer on blk does not block: no thread holds it
LatchFree(blk) == \A q \in Procs : blk \notin Range(held[q])

\* faulty variant: zsbt_begin_scan asks the metapage to create a missing root
BeginScanCreatesRoot == TRUE

\* the create argument each caller passes to zsmeta_get_root_for_attribute
InsertRootCreate == TRUE
FindDownlinkRootCreate == TRUE
LastTidRootCreate == TRUE
BeginScanRootCreate == FALSE
DeleteRootCreate == FALSE

\* zsmeta_get_root_for_attribute(rel, attno, create)
GetRoot(create) ==
    IF meta = InvalidBlockNumber /\ create
    THEN [root |-> nblocks + 1, nblocks |-> nblocks + 1,
          pages |-> [pages EXCEPT ![nblocks + 1] = EmptyRoot]]
    ELSE [root |-> meta, nblocks |-> nblocks, pages |-> pages]

\* LockBuffer and UnlockReleaseBuffer / LockBuffer(BUFFER_LOCK_UNLOCK) on a block
Lock(blk) == [a |-> "lock", blk |-> blk]
Unlock(blk) == [a |-> "unlock", blk |-> blk]

Max2(a, b) == IF a >= b THEN a ELSE b

\* the latches held after the latch events ev, taken in order from the held
\* latches h, and the most that were held at once
RECURSIVE RunLatches(_, _, _)
RunLatches(h, ev, peak) ==
    IF ev = <<>> THEN [held |-> h, peak |-> peak]
    ELSE LET h2 == IF ev[1].a = "lock" THEN Append(h, ev[1].blk)
                   ELSE SelectSeq(h, LAMBDA x : x # ev[1].blk)
         IN RunLatches(h2, Tail(ev), Max2(peak, Len(h2)))

\* thread p after the latch events ev of one step of its call
Latched(p, ev) == RunLatches(held[p], ev, Max2(loc[p].peak, Len(held[p])))

\* zsbt_split_leaf: the new right page comes latched from zs_getnewbuf and is
\* released before zsbt_insert_downlink; the left page stays latched
SplitLeafLatches(rightblkno) == <<Lock(rightblkno), Unlock(rightblkno)>>

\* faulty variant: zsbt_split_internal does not release the child
SplitInternalKeepsChild(childblk, rightblkno) ==
    <<Lock(rightblkno), Unlock(rightblkno)>>

\* zsbt_split_internal: the new right page is latched, the child and the
\* right page are released before the recursion; the parent stays latched
SplitInternalLatches(childblk, rightblkno) ==
    <<Lock(rightblkno), Unlock(childblk), Unlock(rightblkno)>>

\* zsbt_newroot: the metapage and the new root are latched over the left
\* child, then all three are released
NewrootLatches(leftblk, newblk) ==
    <<Lock(ZS_META_BLK), Lock(newblk), Unlock(leftblk), Unlock(newblk),
      Unlock(ZS_META_BLK)>>

\* elog(ERROR): the call is abandoned, its latches and pins are released and
\* what it wrote to pages stays
Abort(p) ==
    /\ pc' = [pc EXCEPT ![p] = "idle"]
    /\ loc' = [loc EXCEPT ![p] = IdleLoc]
    /\ held' = [held EXCEPT ![p] = <<>>]
    /\ ret' = [NoRet EXCEPT !.op = loc[p].op, !.ok = FALSE]

\* a call returns after the latch events ev of its last step
Return(p, r, ev) ==
    /\ pc' = [pc EXCEPT ![p] = "idle"]
    /\ loc' = [loc EXCEPT ![p] = IdleLoc]
    /\ held' = [held EXCEPT ![p] = Latched(p, ev).held]
    /\ ret' = [r EXCEPT !.peak = Latched(p, ev).peak]

\* ---------------------------------------------------------------- insert
\* zsbt_insert: resolve or create the root, aim at the rightmost leaf.  The
\* tree never looks into a datum (the attribute is of fixed width), so each
\* call brings a datum of its own: the call's ordinal.
InsertBegin(p) ==
    /\ pc[p] = "idle"
    /\ nStarted < MaxInserts
    /\ LET g == GetRoot(InsertRootCreate)
           d == nStarted + 1
       IN
         /\ meta' = g.root
         /\ nblocks' = g.nblocks
         /\ pages' = g.pages
         /\ loc' = [loc EXCEPT ![p] = [IdleLoc EXCEPT !.op = "insert", !.next = g.root,
                                                      !.key = RightmostKey, !.datum = d,
                                                      !.fresh = (meta = InvalidBlockNumber)]]
    /\ pc' = [pc EXCEPT ![p] = "descend"]
    /\ nStarted' = nStarted + 1
    /\ UNCHANGED <<codecRun, held, scan, scanLog, insLog, ret, spin, assertFail>>

\* faulty variant: the descent keeps the page latched while it waits for the
\* page it goes on to
DescendKeepsLatch(buf) == <<buf>>

\* what zsbt_descend still holds of page buf when it goes on to the next
\* page: UnlockReleaseBuffer(buf) ends each turn of the loop
DescendKeeps(buf) == <<>>

\* one turn of the loop of zsbt_descend: latch loc.next, look, move on
Descend(p) ==
    /\ pc[p] = "descend"
    /\ LatchFree(loc[p].next)
    /\ LET b == loc[p].next
           v == DescendVisit(pages[b], loc[p].nextlevel, loc[p].key)
       IN IF v.kind = "error" THEN Abort(p)
          ELSE IF v.kind = "leaf"
          THEN /\ pc' = [pc EXCEPT ![p] = "at_leaf"]
               /\ loc' = [loc EXCEPT ![p].buf = b, ![p].nextlevel = v.nextlevel,
                                     ![p].peak = Latched(p, <<Lock(b)>>).peak]
               /\ held' = [held EXCEPT ![p] = Latched(p, <<Lock(b)>>).held]
               /\ ret' = ret
          ELSE /\ pc' = pc
               /\ loc' = [loc EXCEPT ![p].next = v.next, ![p].nextlevel = v.nextlevel,
                                     ![p].peak = Latched(p, <<Lock(b)>>).peak]
               /\ held' = [held EXCEPT ![p] = DescendKeeps(b)]
               /\ ret' = ret
    /\ UNCHANGED <<meta, nblocks, pages, codecRun, scan, scanLog, insLog, nStarted,
                   spin, assertFail>>

InsertRet(tid, datum) ==
    [NoRet EXCEPT !.op = "insert", !.tid = tid, !.datum = datum]

\* zsbt_insert_to_leaf on the leaf that zsbt_descend returned
InsertToLeaf(p) ==
    /\ pc[p] = "at_leaf"
    /\ loc[p].op = "insert"
    /\ LET r == zsbt_insert_to_leaf(codecRun, pages, nblocks, loc[p].buf, loc[p].datum)
       IN /\ pages' = r.pages
          /\ nblocks' = r.nblocks
          /\ assertFail' = (assertFail \/ ~r.assertok)
          /\ IF r.split
             THEN /\ pc' = [pc EXCEPT ![p] = "insert_downlink"]
                  /\ loc' = [loc EXCEPT ![p].tid = r.tid, ![p].rkey = r.splittid,
                                        ![p].rblk = r.rightblkno,
                                        ![p].peak =
                                            Latched(p, SplitLeafLatches(r.rightblkno)).peak]
                  /\ held' = [held EXCEPT ![p] =
                                  Latched(p, SplitLeafLatches(r.rightblkno)).held]
                  /\ UNCHANGED <<ret, insLog>>
             ELSE /\ Return(p, InsertRet(r.tid, loc[p].datum), <<Unlock(loc[p].buf)>>)
                  /\ insLog' = Append(insLog, <<r.tid, loc[p].datum>>)
    /\ UNCHANGED <<meta, codecRun, scan, scanLog, nStarted, spin>>

\* zsbt_insert_downlink with the left page loc.buf latched: zsbt_find_downlink
\* reads the root; when the left page is the root, zsbt_newroot
InsertDownlink(p) ==
    /\ pc[p] = "insert_downlink"
    /\ LET left == loc[p].buf
           g == GetRoot(FindDownlinkRootCreate)
       IN IF g.root = left
          THEN LET n == zsbt_newroot(pages, nblocks, pages[left].level + 1,
                                     pages[left].lokey, left, loc[p].rkey, loc[p].rblk, left)
               IN /\ pages' = n.pages
                  /\ nblocks' = n.nblocks
                  /\ meta' = n.root
                  /\ Return(p, [InsertRet(loc[p].tid, loc[p].datum) EXCEPT !.oldroot = left],
                            NewrootLatches(left, n.root))
                  /\ insLog' = Append(insLog, <<loc[p].tid, loc[p].datum>>)
          ELSE /\ pc' = [pc EXCEPT ![p] = "find_downlink"]
               /\ loc' = [loc EXCEPT ![p].next = g.root, ![p].nextlevel = -1]
               /\ UNCHANGED <<pages, nblocks, meta, held, ret, insLog>>
    /\ UNCHANGED <<codecRun, scan, scanLog, nStarted, spin, assertFail>>

\* one turn of the loop of zsbt_find_downlink; on the parent, the rest of
\* zsbt_insert_downlink
FindDownlink(p) ==
    /\ pc[p] = "find_downlink"
    /\ LatchFree(loc[p].next)
    /\ LET b == loc[p].next
           left == loc[p].buf
           v == FindDownlinkVisit(pages[b], loc[p].nextlevel, pages[left].lokey, left,
                                  pages[left].level)
       IN IF v.kind = "error"
          THEN Abort(p) /\ UNCHANGED <<pages, nblocks, insLog, assertFail>>
          ELSE IF v.kind \in {"right", "down"}
          THEN /\ loc' = [loc EXCEPT ![p].next = v.next, ![p].nextlevel = v.nextlevel,
                                     ![p].peak = Latched(p, <<Lock(b)>>).peak]
               /\ held' = [held EXCEPT ![p] = Latched(p, <<Lock(b), Unlock(b)>>).held]
               /\ UNCHANGED <<pc, ret, pages, nblocks, insLog, assertFail>>
          ELSE LET r == InsertDownlinkAt(pages, nblocks, left, b, loc[p].rkey, loc[p].rblk)
               IN IF r.kind = "error"
                  THEN Abort(p) /\ UNCHANGED <<pages, nblocks, insLog, assertFail>>
                  ELSE IF r.kind = "done"
                  THEN /\ pages' = r.pages
                       /\ Return(p, InsertRet(loc[p].tid, loc[p].datum),
                                 <<Lock(b), Unlock(left), Unlock(b)>>)
                       /\ insLog' = Append(insLog, <<loc[p].tid, loc[p].datum>>)
                       /\ UNCHANGED <<nblocks, assertFail>>
                  ELSE /\ pages' = r.pages
                       /\ nblocks' = r.nblocks
                       /\ assertFail' = (assertFail \/ ~r.assertok)
                       /\ pc' = [pc EXCEPT ![p] = "insert_downlink"]
                       /\ loc' = [loc EXCEPT ![p].buf = b, ![p].rkey = r.splittid,
                                             ![p].rblk = r.rightblkno,
                                             ![p].peak = Latched(p, <<Lock(b)>> \o
                                                 SplitInternalLatches(left, r.rightblkno)).peak]
                       /\ held' = [held EXCEPT ![p] = Latched(p, <<Lock(b)>> \o
                                       SplitInternalLatches(left, r.rightblkno)).held]
                       /\ UNCHANGED <<ret, insLog>>
    /\ UNCHANGED <<meta, codecRun, scan, scanLog, nStarted, spin>>

\* -------------------------------------------------------------- last tid
\* zsbt_get_last_tid: resolve or create the root, descend to the rightmost leaf
LastTidBegin(p) ==
    /\ pc[p] = "idle"
    /\ LET g == GetRoot(LastTidRootCreate) IN
         /\ meta' = g.root
         /\ nblocks' = g.nblocks
         /\ pages' = g.pages
         /\ loc' = [loc EXCEPT ![p] = [IdleLoc EXCEPT !.op = "last_tid", !.next = g.root,
                                                      !.key = RightmostKey,
                                                      !.fresh = (meta = InvalidBlockNumber)]]
    /\ pc' = [pc EXCEPT ![p] = "descend"]
    /\ UNCHANGED <<codecRun, held, scan, scanLog, insLog, nStarted, ret, spin, assertFail>>

\* zsbt_get_last_tid on the leaf: the last item's tid plus one, or the lokey
LastTidAtLeaf(p) ==
    /\ pc[p] = "at_leaf"
    /\ loc[p].op = "last_tid"
    /\ Return(p, [NoRet EXCEPT !.op = "last_tid", !.found = TRUE,
                               !.tid = NextTidOnLeaf(pages[loc[p].buf]),
                               !.fresh = loc[p].fresh],
              <<Unlock(loc[p].buf)>>)
    /\ UNCHANGED <<meta, nblocks, pages, codecRun, scan, scanLog, insLog, nStarted,
                   spin, assertFail>>

\* ------------------------------------------------------------------ scan
StartTids == {<<b, o>> : b \in 0..2, o \in 1..MaxOffset}

\* zsbt_begin_scan: with no root the scan is left inactive, else descend to starttid
BeginScan(p, S) ==
    /\ pc[p] = "idle"
    /\ scan.state # "begun"
    /\ \E start \in S :
         LET g == GetRoot(BeginScanRootCreate) IN
         /\ meta' = g.root
         /\ nblocks' = g.nblocks
         /\ pages' = g.pages
         /\ scanLog' = [start |-> start, snap |-> ChainContents(pages, 1, nblocks),
                        out |-> <<>>, nins |-> nStarted, pins |-> scanLog.pins,
                        fresh |-> (meta = InvalidBlockNumber)]
         /\ IF g.root = InvalidBlockNumber
            THEN /\ scan' = [NoScan EXCEPT !.state = "begun"]
                 /\ ret' = [NoRet EXCEPT !.op = "begin_scan", !.fresh = TRUE]
                 /\ UNCHANGED <<pc, loc>>
            ELSE /\ scan' = NoScan
                 /\ loc' = [loc EXCEPT ![p] = [IdleLoc EXCEPT !.op = "begin_scan",
                                                   !.next = g.root, !.key = start]]
                 /\ pc' = [pc EXCEPT ![p] = "descend"]
                 /\ ret' = ret
    /\ UNCHANGED <<codecRun, held, insLog, nStarted, spin, assertFail>>

\* zsbt_begin_scan after the descent: drop the latch, keep the pin
BeginScanAtLeaf(p) ==
    /\ pc[p] = "at_leaf"
    /\ loc[p].op = "begin_scan"
    /\ scan' = [state |-> "begun", active |-> TRUE, lastbuf |-> loc[p].buf,
                nexttid |-> loc[p].key, has_decompressed |-> FALSE, stream |-> <<>>]
    /\ scanLog' = [scanLog EXCEPT !.pins = @ + 1]
    /\ Return(p, [NoRet EXCEPT !.op = "begin_scan"], <<Unlock(loc[p].buf)>>)
    /\ UNCHANGED <<meta, nblocks, pages, codecRun, insLog, nStarted, spin, assertFail>>

\* zsbt_end_scan: an active scan gives up its pin.  The fields of an ended
\* scan are dead (zsbt_begin_scan writes them all), so they are cleared here.
EndScan(p) ==
    /\ pc[p] = "idle"
    /\ scan.state = "begun"
    /\ scan' = [NoScan EXCEPT !.state = "ended"]
    /\ scanLog' = [NoScanLog EXCEPT !.pins = IF scan.active /\ scan.lastbuf # InvalidBlockNumber
                                             THEN scanLog.pins - 1 ELSE scanLog.pins]
    /\ ret' = [NoRet EXCEPT !.op = "end_scan", !.fresh = scanLog.fresh]
    /\ UNCHANGED <<meta, nblocks, pages, codecRun, pc, loc, held, insLog,
                   nStarted, spin, assertFail>>

\* what zsbt_scan_next does from the top of its loop until it returns or has
\* to latch another page: read the decompressed stream, else latch the pinned
\* page in share mode and walk it
ScanVisit(sc, pgs) ==
    LET rest == IF sc.has_decompressed THEN StreamSkip(sc.stream, sc.nexttid) ELSE <<>>
    IN IF rest # <<>>
       THEN [kind |-> "item", tid |-> rest[1].tid, datum |-> rest[1].datum,
             scan |-> [sc EXCEPT !.stream = Tail(rest),
                                 !.nexttid = ItemPointerIncrement(rest[1].tid)]]
       ELSE LET page == pgs[sc.lastbuf]
                off == FirstStop(page.items, FirstOffsetNumber, sc.nexttid)
            IN IF off = 0
               THEN IF page.next = sc.lastbuf
                    THEN [kind |-> "error", tid |-> NoTid, datum |-> 0, scan |-> sc]
                    ELSE IF page.next = InvalidBlockNumber
                    THEN [kind |-> "end", tid |-> NoTid, datum |-> 0,
                          scan |-> [sc EXCEPT !.active = FALSE,
                                              !.lastbuf = InvalidBlockNumber,
                                              !.has_decompressed = FALSE,
                                              !.stream = <<>>]]
                    ELSE [kind |-> "next", tid |-> NoTid, datum |-> 0,
                          scan |-> [sc EXCEPT !.lastbuf = page.next,
                                              !.has_decompressed = FALSE,
                                              !.stream = <<>>]]
               ELSE IF page.items[off].comp
               THEN LET st == StreamSkip(page.items[off].run, sc.nexttid)
                    IN IF st = <<>>
                       THEN [kind |-> "spin", tid |-> NoTid, datum |-> 0,
                             scan |-> [sc EXCEPT !.has_decompressed = FALSE,
                                                 !.stream = <<>>]]
                       ELSE [kind |-> "item", tid |-> st[1].tid, datum |-> st[1].datum,
                             scan |-> [sc EXCEPT !.has_decompressed = TRUE,
                                                 !.stream = Tail(st),
                                                 !.nexttid = ItemPointerIncrement(st[1].tid)]]
               ELSE [kind |-> "item", tid |-> page.items[off].tid,
                     datum |-> page.items[off].datum,
                     scan |-> [sc EXCEPT !.has_decompressed = FALSE, !.stream = <<>>,
                                 !.nexttid = ItemPointerIncrement(page.items[off].tid)]]

\* the next step of zsbt_scan_next needs no latch: the stream still has an item
StreamHasItem(sc) ==
    sc.has_decompressed /\ StreamSkip(sc.stream, sc.nexttid) # <<>>

\* zsbt_scan_next: a call begins (thread idle) or goes on to the next page
ScanNext(p) ==
    /\ \/ pc[p] = "idle" /\ scan.state = "begun"
       \/ pc[p] = "scan_page"
    /\ IF ~scan.active
       THEN /\ Return(p, [NoRet EXCEPT !.op = "scan_next", !.fresh = scanLog.fresh], <<>>)
            /\ UNCHANGED <<scan, scanLog>>
       ELSE /\ StreamHasItem(scan) \/ LatchFree(scan.lastbuf)
            /\ LET v == ScanVisit(scan, pages)
                   ev == IF StreamHasItem(scan) THEN <<>>
                         ELSE <<Lock(scan.lastbuf), Unlock(scan.lastbuf)>>
               IN IF v.kind = "error"
                  THEN /\ pc' = [pc EXCEPT ![p] = "idle"]
                       /\ loc' = [loc EXCEPT ![p] = IdleLoc]
                       /\ held' = held
                       /\ ret' = [NoRet EXCEPT !.op = "scan_next", !.ok = FALSE]
                       /\ UNCHANGED <<scan, scanLog>>
                  ELSE IF v.kind = "item"
                  THEN /\ scan' = v.scan
                       /\ scanLog' = [scanLog EXCEPT !.out = Append(@, <<v.tid, v.datum>>)]
                       /\ Return(p, [NoRet EXCEPT !.op = "scan_next", !.found = TRUE,
                                                  !.tid = v.tid, !.datum = v.datum], ev)
                  ELSE IF v.kind = "end"
                  THEN /\ scan' = v.scan
                       /\ scanLog' = [scanLog EXCEPT !.pins = @ - 1]
                       /\ Return(p, [NoRet EXCEPT !.op = "scan_next"], ev)
                  ELSE /\ scan' = v.scan
                       /\ scanLog' = scanLog
                       /\ pc' = [pc EXCEPT ![p] = "scan_page"]
                       /\ loc' = [loc EXCEPT ![p] = [IdleLoc EXCEPT !.op = "scan_next",
                                                         !.peak = Latched(p, ev).peak]]
                       /\ held' = [held EXCEPT ![p] = Latched(p, ev).held]
                       /\ ret' = ret
    /\ UNCHANGED <<meta, nblocks, pages, codecRun, insLog, nStarted, spin, assertFail>>

\* ---------------------------------------------------------- delete probe
\* zsbt_scan_for_tuple_delete: with no root return false, else descend to tid
DeleteBegin(p, S) ==
    /\ pc[p] = "idle"
    /\ \E tid \in S :
         LET g == GetRoot(DeleteRootCreate) IN
         /\ meta' = g.root
         /\ nblocks' = g.nblocks
         /\ pages' = g.pages
         /\ IF g.root = InvalidBlockNumber
            THEN /\ ret' = [NoRet EXCEPT !.op = "delete", !.fresh = TRUE]
                 /\ UNCHANGED <<pc, loc>>
            ELSE /\ loc' = [loc EXCEPT ![p] = [IdleLoc EXCEPT !.op = "delete",
                                                   !.next = g.root, !.key = tid]]
                 /\ pc' = [pc EXCEPT ![p] = "descend"]
                 /\ ret' = ret
    /\ spin' = 0
    /\ UNCHANGED <<codecRun, held, scan, scanLog, insLog, nStarted, assertFail>>

\* after the descent the latch is dropped and the pin kept
DeleteAtLeaf(p) ==
    /\ pc[p] = "at_leaf"
    /\ loc[p].op = "delete"
    /\ pc' = [pc EXCEPT ![p] = "del_page"]
    /\ held' = [held EXCEPT ![p] = Latched(p, <<Unlock(loc[p].buf)>>).held]
    /\ UNCHANGED <<meta, nblocks, pages, codecRun, loc, scan, scanLog, insLog, nStarted,
                   ret, spin, assertFail>>

\* one turn of the page loop of zsbt_scan_for_tuple_delete: latch loc.buf
\* exclusively and walk it
\*   "again": a compressed run with lasttid >= tid: unlock and goto loop, buf as it was
\*   "found": an uncompressed item with t_tid >= tid: zs_tuple_delete on it, return true
\*   "next" / "end": the walk fell off the page
DeleteVisit(page, buf, tid) ==
    LET off == FirstStop(page.items, FirstOffsetNumber, tid)
    IN IF off = 0
       THEN IF page.next = buf THEN [kind |-> "error", buf |-> buf, tid |-> NoTid]
            ELSE IF page.next = InvalidBlockNumber
            THEN [kind |-> "end", buf |-> buf, tid |-> NoTid]
            ELSE [kind |-> "next", buf |-> page.next, tid |-> NoTid]
       ELSE IF page.items[off].comp
       THEN [kind |-> "again", buf |-> buf, tid |-> NoTid]
       ELSE [kind |-> "found", buf |-> buf, tid |-> page.items[off].tid]

DeletePage(p) ==
    /\ pc[p] = "del_page"
    /\ LatchFree(loc[p].buf)
    /\ LET v == DeleteVisit(pages[loc[p].buf], loc[p].buf, loc[p].key)
           ev == <<Lock(loc[p].buf), Unlock(loc[p].buf)>>
       IN IF v.kind = "error"
          THEN Abort(p) /\ UNCHANGED <<spin, assertFail>>
          ELSE IF v.kind = "found"
          THEN /\ Return(p, [NoRet EXCEPT !.op = "delete", !.found = TRUE, !.tid = v.tid], ev)
               /\ assertFail' = (assertFail \/ v.tid # loc[p].key)
               /\ spin' = spin
          ELSE IF v.kind = "end"
          THEN /\ Return(p, [NoRet EXCEPT !.op = "delete"], ev)
               /\ UNCHANGED <<spin, assertFail>>
          ELSE IF v.kind = "next"
          THEN /\ loc' = [loc EXCEPT ![p].buf = v.buf, ![p].peak = Latched(p, ev).peak]
               /\ held' = [held EXCEPT ![p] = Latched(p, ev).held]
               /\ UNCHANGED <<pc, ret, spin, assertFail>>
          ELSE /\ spin' = IF spin < MaxSpin THEN spin + 1 ELSE spin
               /\ loc' = [loc EXCEPT ![p].peak = Latched(p, ev).peak]
               /\ held' = [held EXCEPT ![p] = Latched(p, ev).held]
               /\ UNCHANGED <<pc, ret, assertFail>>
    /\ UNCHANGED <<meta, nblocks, pages, codecRun, scan, scanLog, insLog, nStarted>>

\* --------------------------------------------------------- specifications
\* One session whose calls run one after another; a scan that was begun is
\* driven on and ended before another kind of call begins.
SeqInsertBegin == scan.state # "begun" /\ InsertBegin(1)
SeqDescend == Descend(1)
SeqInsertToLeaf == InsertToLeaf(1)
SeqInsertDownlink == InsertDownlink(1)
SeqFindDownlink == FindDownlink(1)
SeqLastTidBegin == scan.state # "begun" /\ LastTidBegin(1)
SeqLastTidAtLeaf == LastTidAtLeaf(1)
SeqBeginScan == BeginScan(1, StartTids)
SeqBeginScanAtLeaf == BeginScanAtLeaf(1)
SeqScanNext == ScanNext(1)
SeqEndScan == EndScan(1)
SeqDeleteBegin == scan.state # "begun" /\ DeleteBegin(1, StartTids)
SeqDeleteAtLeaf == DeleteAtLeaf(1)
SeqDeletePage == DeletePage(1)

Next ==
    \/ SeqInsertBegin
    \/ SeqDescend
    \/ SeqInsertToLeaf
    \/ SeqInsertDownlink
    \/ SeqFindDownlink
    \/ SeqLastTidBegin
    \/ SeqLastTidAtLeaf
    \/ SeqBeginScan
    \/ SeqBeginScanAtLeaf
    \/ SeqScanNext
    \/ SeqEndScan
    \/ SeqDeleteBegin
    \/ SeqDeleteAtLeaf
    \/ SeqDeletePage

Spec == Init /\ [][Next]_vars

\* Two sessions that insert into the same attribute, interleaved at every
\* latch acquisition.
Inserters == {1, 2}

ConcInsertBegin == \E p \in Inserters : InsertBegin(p)
ConcDescend == \E p \in Inserters : Descend(p)
ConcInsertToLeaf == \E p \in Inserters : InsertToLeaf(p)
ConcInsertDownlink == \E p \in Inserters : InsertDownlink(p)
ConcFindDownlink == \E p \in Inserters : FindDownlink(p)

NextConc ==
    \/ ConcInsertBegin
    \/ ConcDescend
    \/ ConcInsertToLeaf
    \/ ConcInsertDownlink
    \/ ConcFindDownlink

SpecConc == Init /\ [][NextConc]_vars

\* Two sessions that insert and one that reads (last_tid, delete probe,
\* scan), interleaved at every latch acquisition.
Reader == 3
MixStartTids == {MinTid}

MixInsertBegin == \E p \in Inserters : nStarted < MixInserts /\ InsertBegin(p)
MixDescend == \E p \in Procs : Descend(p)
MixInsertToLeaf == \E p \in Inserters : InsertToLeaf(p)
MixInsertDownlink == \E p \in Inserters : InsertDownlink(p)
MixFindDownlink == \E p \in Inserters : FindDownlink(p)
MixLastTidBegin == scan.state # "begun" /\ LastTidBegin(Reader)
MixLastTidAtLeaf == LastTidAtLeaf(Reader)
MixBeginScan == BeginScan(Reader, MixStartTids)
MixBeginScanAtLeaf == BeginScanAtLeaf(Reader)
MixScanNext == ScanNext(Reader)
MixEndScan == EndScan(Reader)
MixDeleteBegin == scan.state # "begun" /\ DeleteBegin(Reader, MixStartTids)
MixDeleteAtLeaf == DeleteAtLeaf(Reader)
MixDeletePage == DeletePage(Reader)

NextMix ==
    \/ MixInsertBegin
    \/ MixDescend
    \/ MixInsertToLeaf
    \/ MixInsertDownlink
    \/ MixFindDownlink
    \/ MixLastTidBegin
    \/ MixLastTidAtLeaf
    \/ MixBeginScan
    \/ MixBeginScanAtLeaf
    \/ MixScanNext
    \/ MixEndScan
    \/ MixDeleteBegin
    \/ MixDeleteAtLeaf
    \/ MixDeletePage

SpecMix == Init /\ [][NextMix]_vars

\* One session that inserts and probes for deletes; the probe is given stored
\* TIDs, TIDs beyond the last item and TIDs that no insert can have assigned
\* (offset 0), among them the one below the first item.
ProbeTids == StartTids \cup {<<b, 0>> : b \in 0..1}

ProbeInsertBegin == InsertBegin(1)
ProbeDescend == Descend(1)
ProbeInsertToLeaf == InsertToLeaf(1)
ProbeInsertDownlink == InsertDownlink(1)
ProbeFindDownlink == FindDownlink(1)
ProbeDeleteBegin == DeleteBegin(1, ProbeTids)
ProbeDeleteAtLeaf == DeleteAtLeaf(1)
ProbeDeletePage == DeletePage(1)

NextProbe ==
    \/ ProbeInsertBegin
    \/ ProbeDescend
    \/ ProbeInsertToLeaf
    \/ ProbeInsertDownlink
    \/ ProbeFindDownlink
    \/ ProbeDeleteBegin
    \/ ProbeDeleteAtLeaf
    \/ ProbeDeletePage

SpecProbe == Init /\ [][NextProbe]_vars

\* One session that builds the tree by inserts and, with no insert running,
\* scans it: the caller of zsbt_scan_next keeps calling until it is told that
\* the scan is exhausted, and only then ends the scan.
DrainInsertBegin == scan.state # "begun" /\ InsertBegin(1)
DrainDescend == Descend(1)
DrainInsertToLeaf == InsertToLeaf(1)
DrainInsertDownlink == InsertDownlink(1)
DrainFindDownlink == FindDownlink(1)
DrainBeginScan == BeginScan(1, StartTids)
DrainBeginScanAtLeaf == BeginScanAtLeaf(1)
DrainScanNext == ScanNext(1)
DrainEndScan == ~scan.active /\ EndScan(1)

NextDrain ==
    \/ DrainInsertBegin
    \/ DrainDescend
    \/ DrainInsertToLeaf
    \/ DrainInsertDownlink
    \/ DrainFindDownlink
    \/ DrainBeginScan
    \/ DrainBeginScanAtLeaf
    \/ DrainScanNext
    \/ DrainEndScan

SpecDrain == Init /\ [][NextDrain]_vars /\ WF_vars(DrainScanNext)

\* zsbt_split_internal applied once to an internal page (block 1) with n
\* downlinks (i, 1) -> leaf i + 1 for i in 1..n.  The leaf at position newoff
\* (0-based newoff - 1) was split: it has FOLLOW_RIGHT set and its new right
\* sibling, block n + 2 with lokey (newoff, 2), has no downlink yet; the caller
\* is in zsbt_insert_downlink with the parent latched and found full.
SplitChild(n, newoff, b) ==
    IF b = n + 2
    THEN [lokey |-> <<newoff, 2>>, hikey |-> <<newoff + 1, 1>>,
          next |-> IF newoff = n THEN InvalidBlockNumber ELSE newoff + 2,
          level |-> 0, flags |-> 0, items |-> <<>>]
    ELSE [lokey |-> <<b - 1, 1>>,
          hikey |-> IF b - 1 = newoff THEN <<newoff, 2>> ELSE <<b, 1>>,
          next |-> IF b - 1 = newoff THEN n + 2
                   ELSE IF b - 1 = n THEN InvalidBlockNumber ELSE b + 1,
          level |-> 0,
          flags |-> IF b - 1 = newoff THEN ZS_FOLLOW_RIGHT ELSE 0,
          items |-> <<>>]

SplitParent(n) ==
    [lokey |-> <<1, 1>>, hikey |-> <<n + 1, 1>>, next |-> InvalidBlockNumber,
     level |-> 1, flags |-> 0,
     items |-> [i \in 1..n |-> Downlink(<<i, 1>>, i + 1)]]

InitSplit ==
    \E n \in 2..SplitMaxItems : \E newoff \in 1..n :
        /\ meta = 1
        /\ nblocks = n + 2
        /\ pages = [b \in 1..MaxPages |->
                       IF b = 1 THEN SplitParent(n)
                       ELSE IF b <= n + 2 THEN SplitChild(n, newoff, b)
                       ELSE NoPage]
        /\ codecRun = 0
        /\ pc = [p \in Procs |-> IF p = 1 THEN "split_internal" ELSE "idle"]
        /\ loc = [p \in Procs |->
                     IF p = 1
                     THEN [IdleLoc EXCEPT !.op = "insert", !.buf = newoff + 1,
                                          !.next = 1, !.rkey = <<newoff, 2>>,
                                          !.rblk = n + 2, !.peak = 2]
                     ELSE IdleLoc]
        /\ held = [p \in Procs |-> IF p = 1 THEN <<newoff + 1, 1>> ELSE <<>>]
        /\ scan = NoScan
        /\ scanLog = NoScanLog
        /\ insLog = <<>>
        /\ nStarted = 0
        /\ ret = NoRet
        /\ spin = 0
        /\ assertFail = FALSE

\* the position of the new downlink: zsbt_binsrch_internal(rightlokey) + 1
SplitNewOff(p) == zsbt_binsrch_internal(loc[p].rkey, pages[loc[p].next].items) + 1

\* zsbt_split_internal on parent loc.next for child loc.buf
SplitInternal(p) ==
    /\ pc[p] = "split_internal"
    /\ LET parent == loc[p].next
           child == loc[p].buf
           r == zsbt_split_internal(pages, nblocks, parent, child, SplitNewOff(p),
                                    loc[p].rkey, loc[p].rblk)
           ev == SplitInternalLatches(child, r.rightblkno)
       IN /\ pages' = r.pages
          /\ nblocks' = r.nblocks
          /\ assertFail' = (assertFail \/ ~r.assertok)
          /\ pc' = [pc EXCEPT ![p] = "split_done"]
          /\ loc' = [loc EXCEPT ![p].buf = parent, ![p].rkey = r.splittid,
                                ![p].rblk = r.rightblkno,
                                ![p].peak = Latched(p, ev).peak]
          /\ held' = [held EXCEPT ![p] = Latched(p, ev).held]
    /\ UNCHANGED <<meta, codecRun, scan, scanLog, insLog, nStarted, ret, spin>>

SplitInternalOnce == SplitInternal(1)

NextSplit == SplitInternalOnce

SpecSplit == InitSplit /\ [][NextSplit]_vars

\* zsbt_binsrch_internal run turn by turn on the downlinks of an internal page
\* (block 1): every strictly increasing array of keys (b, 1), b in
\* 1..BinsrchMaxKey, the empty one included, and every probe key at, between,
\* below and above them.
BinsrchKeys == {<<b, o>> : b \in 0..BinsrchMaxKey, o \in 1..2}

BinsrchArrays ==
    {f \in UNION {[1..n -> 1..BinsrchMaxKey] : n \in 0..BinsrchMaxKey} :
        \A i \in 1..(Len(f) - 1) : f[i] < f[i + 1]}

BinsrchPage(f) ==
    [lokey |-> IF Len(f) = 0 THEN MinTid ELSE <<f[1], 1>>, hikey |-> MaxTid,
     next |-> InvalidBlockNumber, level |-> 1, flags |-> 0,
     items |-> [i \in 1..Len(f) |-> Downlink(<<f[i], 1>>, i + 1)]]

BinsrchChild(f, i) ==
    [lokey |-> <<f[i], 1>>,
     hikey |-> IF i = Len(f) THEN MaxTid ELSE <<f[i + 1], 1>>,
     next |-> IF i = Len(f) THEN InvalidBlockNumber ELSE i + 2,
     level |-> 0, flags |-> 0, items |-> <<>>]

InitBinsrch ==
    \E f \in BinsrchArrays : \E key \in BinsrchKeys :
        /\ meta = 1
        /\ nblocks = Len(f) + 1
        /\ pages = [b \in 1..MaxPages |->
                       IF b = 1 THEN BinsrchPage(f)
                       ELSE IF b <= Len(f) + 1 THEN BinsrchChild(f, b - 1)
                       ELSE NoPage]
        /\ codecRun = 0
        /\ pc = [p \in Procs |-> IF p = 1 THEN "binsrch" ELSE "idle"]
        /\ loc = [p \in Procs |->
                     IF p = 1
                     THEN [op |-> "binsrch", buf |-> 1, key |-> key,
                           low |-> 0, high |-> Len(f), itemno |-> -1, turns |-> 0]
                     ELSE IdleLoc]
        /\ held = [p \in Procs |-> IF p = 1 THEN <<1>> ELSE <<>>]
        /\ scan = NoScan
        /\ scanLog = NoScanLog
        /\ insLog = <<>>
        /\ nStarted = 0
        /\ ret = NoRet
        /\ spin = 0
        /\ assertFail = FALSE

\* one turn of `while (high > low)`
BinsrchStep(p) ==
    /\ pc[p] = "binsrch"
    /\ loc[p].high > loc[p].low
    /\ LET t == BinsrchTurn(loc[p].key, pages[loc[p].buf].items, loc[p].low, loc[p].high)
       IN loc' = [loc EXCEPT ![p].low = t.low, ![p].high = t.high,
                             ![p].turns = loc[p].turns + 1]
    /\ UNCHANGED <<meta, nblocks, pages, codecRun, pc, held, scan, scanLog, insLog,
                   nStarted, ret, spin, assertFail>>

\* `return low - 1`
BinsrchReturn(p) ==
    /\ pc[p] = "binsrch"
    /\ ~(loc[p].high > loc[p].low)
    /\ pc' = [pc EXCEPT ![p] = "binsrch_done"]
    /\ loc' = [loc EXCEPT ![p].itemno = loc[p].low - 1]
    /\ UNCHANGED <<meta, nblocks, pages, codecRun, held, scan, scanLog, insLog,
                   nStarted, ret, spin, assertFail>>

BinsrchLoopTurn == BinsrchStep(1)
BinsrchLoopExit == BinsrchReturn(1)

NextBinsrch ==
    \/ BinsrchLoopTurn
    \/ BinsrchLoopExit

\* the function runs in one backend, which keeps executing until it returns
SpecBinsrch == InitBinsrch /\ [][NextBinsrch]_vars /\ WF_vars(NextBinsrch)

\* One session that inserts and one that scans, interleaved at every latch
\* acquisition and between the calls of the scan.
Inserter == 1
Scanner == 3

ScanInsertBegin == InsertBegin(Inserter)
ScanInsertDescend == Descend(Inserter)
ScanInsertToLeaf == InsertToLeaf(Inserter)
ScanInsertDownlink == InsertDownlink(Inserter)
ScanFindDownlink == FindDownlink(Inserter)
ScanBegin == BeginScan(Scanner, StartTids)
ScanBeginDescend == Descend(Scanner)
ScanBeginAtLeaf == BeginScanAtLeaf(Scanner)
ScanScanNext == ScanNext(Scanner)
ScanEnd == EndScan(Scanner)

NextScan ==
    \/ ScanInsertBegin
    \/ ScanInsertDescend
    \/ ScanInsertToLeaf
    \/ ScanInsertDownlink
    \/ ScanFindDownlink
    \/ ScanBegin
    \/ ScanBeginDescend
    \/ ScanBeginAtLeaf
    \/ ScanScanNext
    \/ ScanEnd

SpecScan == Init /\ [][NextScan]_vars

\* ----------------------------------------------------------- properties
\* the i-th TID in lexicographic order, counted from (0,1)
NthTid(i) == <<(i - 1) \div MaxOffset, ((i - 1) % MaxOffset) + 1>>

IsPrefix(a, b) == Len(a) <= Len(b) /\ a = SubSeq(b, 1, Len(a))

\* a sequence of (tid, datum) pairs with strictly increasing TIDs
TidsIncrease(sq) ==
    \A i \in 1..(Len(sq) - 1) : ItemPointerCompare(sq[i][1], sq[i + 1][1]) < 0

\* the scan has returned all it will: it is inactive and no call is in progress
Exhausted == scan.state = "begun" /\ ~scan.active /\ pc[1] = "idle"

HasCompressedItem ==
    \E b \in 1..nblocks : \E i \in 1..Len(pages[b].items) :
        pages[b].level = 0 /\ pages[b].items[i].comp

\* C1: after n inserts run one after another, a scan begun at (0,1) returns
\* the inserted (TID, datum) pairs in the order of the inserts, with strictly
\* increasing TIDs: what it has returned so far is a prefix of the inserts'
\* results, and once exhausted it has returned exactly all n of them.
C1_InsertThenScan ==
    (scan.state = "begun" /\ scanLog.start = MinTid) =>
        /\ IsPrefix(scanLog.out, insLog)
        /\ TidsIncrease(scanLog.out)
        /\ \A i \in 1..Len(scanLog.out) : scanLog.out[i][2] = i
        /\ Exhausted => scanLog.out = insLog

\* an exhausted scan from (0,1) over a tree of all the inserts, two levels of
\* internal pages above leaves that hold compressed runs
C1_Witness ==
    /\ Exhausted
    /\ scanLog.start = MinTid
    /\ Len(scanLog.out) = MaxInserts
    /\ pages[meta].level = 2
    /\ HasCompressedItem

\* the (tid, datum) pairs stored on the leaves of blocks b..nblocks
RECURSIVE StoredFrom(_)
StoredFrom(b) ==
    IF b > nblocks THEN <<>>
    ELSE (IF pages[b].level = 0 THEN Expand(pages[b].items) ELSE <<>>) \o StoredFrom(b + 1)

NoTidTwice(sq) ==
    \A i, j \in 1..Len(sq) : i < j => sq[i][1] # sq[j][1]

\* C2: when two sessions insert concurrently, no two zsbt_insert calls return
\* the same TID and no two items stored on the leaves carry the same TID.
C2_ConcurrentInsertsUniqueTids ==
    /\ NoTidTwice(insLog)
    /\ NoTidTwice(StoredFrom(1))

\* C3: every item on a leaf lies inside the leaf's key range, lokey <= first
\* TID and last TID < hikey, and every downlink on an internal page likewise.
C3_ItemsWithinKeyRange ==
    \A b \in 1..nblocks :
        \A i \in 1..Len(pages[b].items) :
            LET it == pages[b].items[i]
                last == IF pages[b].level = 0 THEN it.lasttid ELSE it.tid
            IN /\ ItemPointerCompare(pages[b].lokey, it.tid) <= 0
               /\ ItemPointerCompare(last, pages[b].hikey) < 0

\* C4: once the insert that split the root has returned through zsbt_newroot,
\* the former root has FOLLOW_RIGHT clear, the new root holds exactly the two
\* downlinks left.lokey -> left and right.lokey -> right one level above the
\* left page, and the metapage names the new root.
C4_NewRootClearsFollowRight ==
    (pc[1] = "idle" /\ ret.op = "insert" /\ ret.oldroot # InvalidBlockNumber) =>
        LET left == pages[ret.oldroot]
            root == pages[meta]
        IN /\ BitAnd(left.flags, ZS_FOLLOW_RIGHT) = 0
           /\ meta # ret.oldroot
           /\ root.level = left.level + 1
           /\ root.items = <<Downlink(left.lokey, ret.oldroot),
                             Downlink(pages[left.next].lokey, left.next)>>

\* C5: the leaf that zsbt_descend returns latched covers the key that was
\* looked for: lokey <= key < hikey.
C5_DescendReturnsCoveringLeaf ==
    \A p \in Procs :
        pc[p] = "at_leaf" =>
            /\ ItemPointerCompare(pages[loc[p].buf].lokey, loc[p].key) <= 0
            /\ ItemPointerCompare(loc[p].key, pages[loc[p].buf].hikey) < 0

\* the scan's session has no call in progress and the scan will return no more
ScanDone == scan.state = "begun" /\ ~scan.active /\ pc[Scanner] = "idle"

\* the items of the tree when the scan began that the scan was asked for
SnapFromStart ==
    SelectSeq(scanLog.snap, LAMBDA e : ItemPointerCompare(e[1], scanLog.start) >= 0)

\* what the scan has returned of the items that were there when it began
OutOfSnap ==
    SelectSeq(scanLog.out, LAMBDA e : \E k \in 1..Len(scanLog.snap) : scanLog.snap[k] = e)

\* C6: a scan next to one inserter returns the items with TID >= start that
\* were in the tree when the scan began, each once and in their order, with
\* strictly increasing TIDs and nothing below start: of those items it has
\* returned a prefix at any time and all of them once it is exhausted.
C6_ScanBesideInserter ==
    scan.state = "begun" =>
        /\ TidsIncrease(scanLog.out)
        /\ \A i \in 1..Len(scanLog.out) :
               ItemPointerCompare(scanLog.out[i][1], scanLog.start) >= 0
        /\ IsPrefix(OutOfSnap, SnapFromStart)
        /\ ScanDone => OutOfSnap = SnapFromStart

\* an exhausted scan that returned items from inside a compressed run and
\* items inserted after it began, the leaves having been split meanwhile
C6_Witness ==
    /\ ScanDone
    /\ Len(SnapFromStart) >= 2
    /\ Len(SnapFromStart) < Len(scanLog.snap)
    /\ Len(scanLog.out) > Len(SnapFromStart)
    /\ nStarted >= scanLog.nins + 3
    /\ HasCompressedItem

\* C7: the delete probe makes progress on every turn of its page loop: a turn
\* that does not return moves the walk to another page, so the probe never
\* latches the page it has just walked again.
C7_DeleteProbeTerminates ==
    [][\A p \in Procs :
          (pc[p] = "del_page" /\ pc'[p] = "del_page") => loc'[p].buf # loc[p].buf]_vars

\* C8 as the specification states it: zsbt_get_last_tid on an attribute
\* without a root returns no TID and leaves the metapage without a root.
C8_LastTidNoRootReturnsNone ==
    (pc[1] = "idle" /\ ret.op = "last_tid" /\ ret.fresh) =>
        /\ ~ret.found
        /\ meta = InvalidBlockNumber
        /\ nblocks = 0

\* C8 as the code has it: zsbt_get_last_tid on an attribute without a root
\* has the metapage create the root, an empty leaf covering every key, and
\* returns that leaf's lokey (0,1) as the next TID.
C8_LastTidNoRootCreatesRoot ==
    (pc[1] = "idle" /\ ret.op = "last_tid" /\ ret.fresh) =>
        /\ ret.found
        /\ ret.tid = MinTid
        /\ meta = 1
        /\ nblocks = 1
        /\ pages[meta] = EmptyRoot

C8_Witness == pc[1] = "idle" /\ ret.op = "last_tid" /\ ret.fresh

\* C9: a scan begun on an attribute without a root is exhausted at once: it
\* is inactive and holds no pin, zsbt_scan_next returns no item every time,
\* zsbt_end_scan changes no pin count, and none of the three creates a root
\* or a page.
C9_ScanWithoutRoot ==
    /\ (scan.state = "begun" /\ scanLog.fresh) =>
           /\ ~scan.active
           /\ scan.lastbuf = InvalidBlockNumber
           /\ scanLog.pins = 0
           /\ scanLog.out = <<>>
           /\ meta = InvalidBlockNumber
           /\ nblocks = 0
    /\ (pc[1] = "idle" /\ ret.op \in {"begin_scan", "scan_next", "end_scan"} /\ ret.fresh) =>
           /\ ret.ok
           /\ ~ret.found
           /\ scanLog.pins = 0
           /\ meta = InvalidBlockNumber
           /\ nblocks = 0

\* zsbt_scan_next has returned on a scan begun without a root
C9_Witness == pc[1] = "idle" /\ ret.op = "scan_next" /\ ret.fresh /\ scan.state = "begun"

\* C10: inserts run one after another return contiguous TIDs: the i-th insert
\* returns the i-th TID counted from (0,1) in lexicographic order, the offset
\* rolling over from MaxOffset to offset 1 of the next block.
C10_ContiguousTids ==
    \A i \in 1..Len(insLog) : insLog[i][1] = NthTid(i)

\* all the inserts have returned: the TIDs rolled over twice, leaves were
\* compressed and split
C10_Witness ==
    /\ Len(insLog) = MaxInserts
    /\ insLog[Len(insLog)][1][1] >= 2
    /\ nblocks >= 4
    /\ HasCompressedItem

\* C11: with no call in progress, zsbt_get_last_tid returns the TID that the
\* next zsbt_insert returns: after n inserts it is the (n+1)-th TID counted
\* from (0,1), the TID that follows the rightmost leaf's last item, and it is
\* strictly greater than every TID returned so far (so also than its own
\* value after n-1 inserts, the TID of the n-th insert).
C11_LastTidIsNextInsertTid ==
    (pc[1] = "idle" /\ ret.op = "last_tid") =>
        /\ ret.found
        /\ ret.tid = NthTid(Len(insLog) + 1)
        /\ \A i \in 1..Len(insLog) : ItemPointerCompare(insLog[i][1], ret.tid) < 0
        /\ Len(insLog) > 0 => ret.tid = ItemPointerIncrement(insLog[Len(insLog)][1])

\* zsbt_get_last_tid has returned on a tree of several leaves with compressed
\* runs, the next TID being the first of a block
C11_Witness ==
    /\ pc[1] = "idle"
    /\ ret.op = "last_tid"
    /\ Len(insLog) >= 2 * MaxOffset
    /\ ret.tid[2] = 1
    /\ pages[meta].level >= 1
    /\ HasCompressedItem

\* the results of the inserts whose TID is at or above the scan's start
InsertedFromStart ==
    SelectSeq(insLog, LAMBDA e : ItemPointerCompare(e[1], scanLog.start) >= 0)

\* C12: on a tree built by sequential inserts, a scan begun at any TID t
\* returns the items with TID >= t of what a scan from (0,1) returns (the
\* inserts' results, in order): what it has returned is a prefix of them at
\* any time and all of them once it is exhausted.
C12_ScanFromAnyStart ==
    scan.state = "begun" =>
        /\ IsPrefix(scanLog.out, InsertedFromStart)
        /\ Exhausted => scanLog.out = InsertedFromStart

\* an exhausted scan that began at an item past the first of block 1, in a
\* tree with two internal levels, and left the items below its start unreturned
C12_Witness ==
    /\ Exhausted
    /\ ItemPointerCompare(scanLog.start, <<1, 1>>) > 0
    /\ Len(scanLog.out) >= 2
    /\ Len(scanLog.out) < Len(insLog)
    /\ scanLog.out[1][1] = scanLog.start
    /\ pages[meta].level = 2

\* the leaves after n sequential inserts under the codec that refuses every
\* item: the inserts always go to the rightmost leaf, block 1 at first and the
\* new right page after each split (the internal pages are left out)
RECURSIVE RefusingRun(_)
RefusingRun(n) ==
    IF n = 0
    THEN [pages |-> [b \in 1..MaxPages |-> IF b = 1 THEN EmptyRoot ELSE NoPage],
          nblocks |-> 1, leaf |-> 1]
    ELSE LET r == RefusingRun(n - 1)
             i == zsbt_insert_to_leaf(0, r.pages, r.nblocks, r.leaf, n)
         IN [pages |-> i.pages, nblocks |-> i.nblocks,
             leaf |-> IF i.split THEN i.rightblkno ELSE r.leaf]

NumLeaves == Cardinality({b \in 1..nblocks : pages[b].level = 0})

\* C13: a full scan returns the same (tid, datum) pairs whatever the codec:
\* after n sequential inserts an exhausted scan from (0,1) has returned what
\* the leaves hold after the same n inserts under the codec that refuses
\* every item.
C13_CompressionTransparent ==
    (Exhausted /\ scanLog.start = MinTid) =>
        scanLog.out = ChainContents(RefusingRun(Len(insLog)).pages, 1, MaxPages)

\* an exhausted full scan of a tree whose codec built runs and whose leaves
\* were split at other points than under the refusing codec
C13_Witness ==
    /\ Exhausted
    /\ scanLog.start = MinTid
    /\ codecRun >= 2
    /\ HasCompressedItem
    /\ Len(insLog) = MaxInserts
    /\ NumLeaves < RefusingRun(Len(insLog)).nblocks

\* C14: neither zsbt_split_leaf nor zsbt_split_internal is entered on a page
\* whose FOLLOW_RIGHT flag is set (or whose level is not the one the function
\* expects): the Asserts at the start of both functions hold in every
\* reachable state.
C14_SplitAssertionsHold == ~assertFail

\* C15: no elog(ERROR) of the module is reachable on a tree built from empty
\* by the module's own operations: no operation ends in an error, also in
\* the runs in which every Assert of the code held.
C15_NoCorruptionError == assertFail \/ ret.ok

HasFollowRight(b) == BitAnd(pages[b].flags, ZS_FOLLOW_RIGHT) # 0

\* C17: sibling chain: every page with a valid next has the hikey that is the
\* lokey of the page next names (a page of its own level), the page without
\* next has the maximum sentinel as hikey, and a page with FOLLOW_RIGHT set
\* has a valid next whose lokey is the page's hikey.
C17_SiblingChain ==
    \A b \in 1..nblocks :
        /\ pages[b].next # InvalidBlockNumber =>
               /\ pages[b].next \in 1..nblocks
               /\ pages[pages[b].next].level = pages[b].level
               /\ pages[pages[b].next].lokey = pages[b].hikey
        /\ pages[b].next = InvalidBlockNumber => pages[b].hikey = MaxTid
        /\ HasFollowRight(b) =>
               /\ pages[b].next # InvalidBlockNumber
               /\ pages[pages[b].next].lokey = pages[b].hikey

\* in the middle of a split under an internal root: an inserter holds a
\* leaf whose FOLLOW_RIGHT is set, beside a leaf that a second split of an
\* already split page left with an empty key range
C17_Witness ==
    /\ meta # InvalidBlockNumber
    /\ pages[meta].level >= 1
    /\ \E p \in Procs : /\ pc[p] = "insert_downlink"
                        /\ pages[loc[p].buf].level = 0
                        /\ HasFollowRight(loc[p].buf)
    /\ \E b \in 1..nblocks : /\ pages[b].level = 0
                             /\ pages[b].lokey = pages[b].hikey
                             /\ pages[b].next # InvalidBlockNumber

InternalBlocks == {b \in 1..nblocks : pages[b].level > 0}

\* C18: on every internal page the downlink keys increase strictly, the first
\* key is the page's lokey, and every downlink names a page one level below
\* whose lokey is the downlink's key.
C18_Downlinks ==
    \A b \in InternalBlocks :
        LET items == pages[b].items
        IN /\ Len(items) >= 1
           /\ items[1].tid = pages[b].lokey
           /\ \A i \in 1..(Len(items) - 1) :
                  ItemPointerCompare(items[i].tid, items[i + 1].tid) < 0
           /\ \A i \in 1..Len(items) :
                  /\ items[i].childblk \in 1..nblocks
                  /\ pages[items[i].childblk].lokey = items[i].tid
                  /\ pages[items[i].childblk].level = pages[b].level - 1

\* after zsbt_newroot, a non-splitting zsbt_insert_downlink and
\* zsbt_split_internal: a root of level 2 over the two halves of a split
\* internal page, the left half with two downlinks or more
C18_Witness ==
    /\ meta # InvalidBlockNumber
    /\ pages[meta].level = 2
    /\ Len(pages[meta].items) = 2
    /\ \E b \in InternalBlocks : /\ pages[b].level = 1
                                 /\ pages[b].next # InvalidBlockNumber
                                 /\ Len(pages[b].items) >= 2

\* the block whose latch thread p asks for next, when it is inside a call at a
\* LockBuffer
WaitTarget(p) ==
    IF pc[p] \in {"descend", "find_downlink"} THEN loc[p].next
    ELSE IF pc[p] = "del_page" THEN loc[p].buf
    ELSE IF pc[p] = "scan_page" /\ ~StreamHasItem(scan) THEN scan.lastbuf
    ELSE InvalidBlockNumber

Blocked(p) == WaitTarget(p) # InvalidBlockNumber /\ ~LatchFree(WaitTarget(p))

Holder(blk) == CHOOSE q \in Procs : blk \in Range(held[q])

\* thread p waits for a thread that waits ... n times over: with n the number
\* of threads, p waits on a cycle
RECURSIVE WaitChain(_, _)
WaitChain(p, n) ==
    IF ~Blocked(p) THEN FALSE
    ELSE IF n = 0 THEN TRUE
    ELSE WaitChain(Holder(WaitTarget(p)), n - 1)

RECURSIVE DownReach(_, _)
DownReach(S, fuel) ==
    LET T == S \cup UNION {{pages[b].items[i].childblk : i \in 1..Len(pages[b].items)} :
                              b \in {x \in S : pages[x].level > 0}}
    IN IF fuel = 0 \/ T = S THEN S ELSE DownReach(T, fuel - 1)

\* the pages reached from the pages of S by right-links
RECURSIVE RightReach(_, _)
RightReach(S, fuel) ==
    LET T == S \cup {pages[b].next : b \in {x \in S : pages[x].next # InvalidBlockNumber}}
    IN IF fuel = 0 \/ T = S THEN S ELSE RightReach(T, fuel - 1)

Leaves == {b \in 1..nblocks : pages[b].level = 0}

\* the root has the highest level and every leaf is reached from it by
\* downlinks and then right-links
RootCoversTree ==
    meta # InvalidBlockNumber =>
        /\ meta \in 1..nblocks
        /\ \A b \in 1..nblocks : pages[b].level <= pages[meta].level
        /\ Leaves \subseteq RightReach(DownReach({meta}, MaxPages), MaxPages)

\* a step that changes the root pointer of an existing root is zsbt_newroot
\* run by the thread that holds the old root after splitting it: the new root
\* is a fresh page one level up whose downlinks are the old root and the
\* split's right page
RootChangedByNewroot ==
    (meta # InvalidBlockNumber /\ meta' # meta) =>
        \E p \in Procs :
            /\ pc[p] = "insert_downlink"
            /\ loc[p].buf = meta
            /\ meta' = nblocks + 1
            /\ pages'[meta'].level = pages[meta].level + 1
            /\ pages'[meta'].items = <<Downlink(pages[meta].lokey, meta),
                                       Downlink(loc[p].rkey, loc[p].rblk)>>

\* C19: the root pointer of an existing root is changed only by
\* zsbt_newroot, every change raises the root level by one, the root has the
\* highest level of the tree, and every leaf is reached from the root by
\* downlinks and then right-links, also between a split and the installation
\* of its downlink.
C19_RootAndReachability == []RootCoversTree /\ [][RootChangedByNewroot]_vars

\* under an internal root, a leaf that a split has made and that has no
\* downlink yet: it is reached by the right-link only
C19_Witness ==
    /\ meta # InvalidBlockNumber
    /\ pages[meta].level >= 1
    /\ \E b \in Leaves : b \notin DownReach({meta}, MaxPages)

BetweenScanCalls == \A p \in Procs : loc[p].op \notin {"begin_scan", "scan_next"}

\* C20: latch and pin discipline: no thread holds more than three buffer
\* latches at once, and the call that installed a new root held exactly
\* three; a thread outside a call holds no latch; between the calls of a scan
\* an active scan holds one pin and an exhausted or ended scan none, and the
\* count of pins never goes below zero.
C20_LatchAndPinDiscipline ==
    /\ \A p \in Procs : Len(held[p]) <= 3 /\ loc[p].peak <= 3
    /\ ret.peak <= 3
    /\ ret.oldroot # InvalidBlockNumber => ret.peak = 3
    /\ \A p \in Procs : pc[p] = "idle" => held[p] = <<>>
    /\ scanLog.pins \in {0, 1}
    /\ BetweenScanCalls =>
           scanLog.pins = IF scan.state = "begun" /\ scan.active THEN 1 ELSE 0

\* an insert has returned that split a leaf, split its full parent (child,
\* parent and new right page latched) and put a new root over the parent
\* (metapage, new root and left child latched)
C20_Witness ==
    /\ ret.op = "insert"
    /\ ret.oldroot # InvalidBlockNumber
    /\ pages[ret.oldroot].level = 1
    /\ ret.peak = 3
    /\ \A p \in Procs : held[p] = <<>>
    /\ scanLog.pins = 0

\* in the latch events ev no latch is taken between the taking of the
\* metapage latch and its release
RECURSIVE MetaLatchLast(_, _)
MetaLatchLast(ev, metaheld) ==
    IF ev = <<>> THEN TRUE
    ELSE IF ev[1].a = "lock"
    THEN IF metaheld THEN FALSE
         ELSE MetaLatchLast(Tail(ev), ev[1].blk = ZS_META_BLK)
    ELSE MetaLatchLast(Tail(ev), metaheld /\ ev[1].blk # ZS_META_BLK)

\* C21: the metapage latch is the last latch a thread takes: in the step in
\* which a thread installs a new root, it takes no buffer latch, not even
\* that of the newly allocated root page, while it holds the metapage latch.
C21_MetapageLatchedLast ==
    [][\A p \in Procs :
          (pc[p] = "insert_downlink" /\ pc'[p] = "idle" /\ meta' # meta) =>
              MetaLatchLast(NewrootLatches(loc[p].buf, meta'), FALSE)]_vars

\* C22: the delete probe calls zs_tuple_delete only on an uncompressed item
\* whose TID is the requested tid and returns found only then: a probe that
\* returns found returns the requested tid, and its Assert holds.
C22_DeleteProbeExactTid ==
    [][\A p \in Procs :
          (pc[p] = "del_page" /\ pc'[p] = "idle" /\ ret'.ok /\ ret'.found) =>
              /\ ret'.tid = loc[p].key
              /\ assertFail' = assertFail]_vars

StrictlyIncreasing(items) ==
    \A i \in 1..(Len(items) - 1) : ItemPointerCompare(items[i].tid, items[i + 1].tid) < 0

\* what the claim says of one application: orig before, left and right after,
\* new the new downlink and newoff its 0-based position in orig
SplitInternalPost(orig, left, right, rightlokey, new, newoff) ==
    LET n == Len(orig)
        sp == (9 * n) \div 10
        lo == SubSeq(orig, 1, sp)
        hi == SubSeq(orig, sp + 1, n)
    IN /\ IF ItemPointerCompare(new.tid, orig[sp + 1].tid) < 0
          THEN /\ left = SubSeq(lo, 1, newoff) \o <<new>> \o SubSeq(lo, newoff + 1, sp)
               /\ right = hi
          ELSE /\ left = lo
               /\ right = SubSeq(hi, 1, newoff - sp) \o <<new>> \o
                          SubSeq(hi, newoff - sp + 1, n - sp)
       /\ Len(left) + Len(right) = n + 1
       /\ StrictlyIncreasing(left)
       /\ StrictlyIncreasing(right)
       /\ rightlokey = right[1].tid

\* C23: zsbt_split_internal leaves the first floor(0.9 n) downlinks on the
\* left page and the others on the right page, puts the new downlink on the
\* left iff its key is below the key at the split index, at its sorted place;
\* the counts add up to n + 1, both pages are strictly increasing and the
\* right page's lokey is the key of its first downlink.
C23_SplitInternalContents ==
    [][\A p \in Procs :
          (pc[p] = "split_internal" /\ pc'[p] = "split_done") =>
              SplitInternalPost(pages[loc[p].next].items,
                                pages'[loc[p].next].items,
                                pages'[loc'[p].rblk].items,
                                pages'[loc'[p].rblk].lokey,
                                Downlink(loc[p].rkey, loc[p].rblk),
                                SplitNewOff(p))]_vars

\* after a split of a page of 11 downlinks (9 stay left) in which the new
\* downlink went to the end of the left page
C23_Witness ==
    /\ pc[1] = "split_done"
    /\ Len(pages[1].items) = 10
    /\ Len(pages[loc[1].rblk].items) = 2
    /\ pages[1].items[10].childblk = 13

\* p is at a leaf that is too full for the item and that cannot be repacked
CompressFailsAt(p) ==
    /\ pc[p] = "at_leaf"
    /\ loc[p].op = "insert"
    /\ PageGetFreeSpace(pages[loc[p].buf].items) < ItemSz
    /\ ~CompressLoop(codecRun, pages[loc[p].buf].items, FirstOffsetNumber,
                     [success |-> TRUE, out |-> <<>>, cur |-> <<>>], 0).success

\* C24: when zsbt_compress_leaf fails, it returns false with the page as it
\* was (same items in the same order, same free space, same header), and the
\* insert that called it splits the leaf with those contents: the left half
\* keeps every item the page had, the right half holds the new item alone.
C24_FailedCompressionLeavesPage ==
    [][\A p \in Procs :
          (CompressFailsAt(p) /\ pc'[p] # "at_leaf") =>
              LET buf == loc[p].buf
                  c == zsbt_compress_leaf(codecRun, pages[buf].items)
              IN /\ ~c.success
                 /\ c.items = pages[buf].items
                 /\ PageGetFreeSpace(c.items) = PageGetFreeSpace(pages[buf].items)
                 /\ pc'[p] = "insert_downlink"
                 /\ pages'[buf].items = pages[buf].items
                 /\ pages'[buf].lokey = pages[buf].lokey
                 /\ pages'[buf].level = pages[buf].level
                 /\ pages'[loc'[p].rblk].items =
                        <<RawItem(NextTidOnLeaf(pages[buf]), loc[p].datum)>>
                 /\ pages'[loc'[p].rblk].hikey = pages[buf].hikey
                 /\ pages'[loc'[p].rblk].next = pages[buf].next]_vars

\* a leaf whose items the codec does take, but whose repacked form does not
\* fit, was split: the left half is the page before the attempt, the new item
\* is alone on the right half
C24_Witness ==
    \E p \in Procs :
        /\ pc[p] = "insert_downlink"
        /\ pages[loc[p].buf].level = 0
        /\ LET left == pages[loc[p].buf].items
           IN /\ PageGetFreeSpace(left) < ItemSz
              /\ CompressAdd(codecRun, <<>>, BLCKSZ)
              /\ ~zsbt_compress_leaf(codecRun, left).success
        /\ Len(pages[loc[p].rblk].items) = 1

\* items in increasing TID order, the ranges of neighbours disjoint
RangesIncrease(items) ==
    \A i \in 1..Len(items) :
        /\ ItemPointerCompare(items[i].tid, items[i].lasttid) <= 0
        /\ i < Len(items) =>
               ItemPointerCompare(items[i].lasttid, items[i + 1].tid) < 0

\* C25: when zsbt_compress_leaf succeeds, walking the page and expanding every
\* run gives the same (tid, datum) sequence as before; items and runs are in
\* increasing TID order with disjoint ranges; the runs that were already
\* compressed are carried over unchanged; every item that was uncompressed
\* appears exactly once, also one the encoder rejected and took in a fresh
\* run; and the page header is unchanged.
C25_CompressionPreservesContent ==
    [][\A p \in Procs :
          (/\ pc[p] = "at_leaf" /\ loc[p].op = "insert" /\ pc'[p] # "at_leaf"
           /\ PageGetFreeSpace(pages[loc[p].buf].items) < ItemSz
           /\ zsbt_compress_leaf(codecRun, pages[loc[p].buf].items).success) =>
              LET buf == loc[p].buf
                  before == pages[buf].items
                  after == zsbt_compress_leaf(codecRun, before).items
                  new == RawItem(NextTidOnLeaf(pages[buf]), loc[p].datum)
              IN /\ Expand(after) = Expand(before)
                 /\ RangesIncrease(after)
                 /\ \A i \in 1..Len(before) :
                        before[i].comp => \E j \in 1..Len(after) : after[j] = before[i]
                 /\ \A i, j \in 1..Len(Expand(after)) :
                        i < j => ItemPointerCompare(Expand(after)[i][1],
                                                    Expand(after)[j][1]) < 0
                 /\ IF pc'[p] = "insert_downlink"
                    THEN /\ pages'[buf].items = after
                         /\ pages'[loc'[p].rblk].items = <<new>>
                    ELSE /\ pages'[buf] = [pages[buf] EXCEPT !.items = Append(after, new)]]_vars

\* after an insert whose repacking took an item the encoder had rejected into
\* a fresh run: the page starts with a full run and a second run follows
C25_Witness ==
    \E b \in 1..nblocks :
        /\ pages[b].level = 0
        /\ Len(pages[b].items) >= 2
        /\ pages[b].items[1].comp
        /\ Len(pages[b].items[1].run) = codecRun
        /\ pages[b].items[2].comp

\* C26: on a strictly increasing array of n >= 0 downlinks,
\* zsbt_binsrch_internal returns the largest index i with arr[i].tid <= key,
\* and -1 exactly when n = 0 or key < arr[0].tid; the result is in -1 .. n-1;
\* every turn of the loop narrows high - low, and the function returns.
C26_BinsrchInternal ==
    /\ [](\A p \in Procs : pc[p] = "binsrch_done" =>
            LET arr == pages[loc[p].buf].items
                n == Len(arr)
                key == loc[p].key
                r == loc[p].itemno
                le == {i \in 0..(n - 1) : ItemPointerCompare(arr[i + 1].tid, key) <= 0}
            IN /\ r \in -1..(n - 1)
               /\ r = -1 <=> (n = 0 \/ ItemPointerCompare(key, arr[1].tid) < 0)
               /\ r # -1 => (r \in le /\ \A i \in le : i <= r)
               /\ r = zsbt_binsrch_internal(key, arr))
    /\ [][\A p \in Procs : pc[p] = "binsrch" =>
              /\ loc'[p].high - loc'[p].low >= 0
              /\ loc'[p].turns > loc[p].turns =>
                     loc'[p].high - loc'[p].low < loc[p].high - loc[p].low]_vars
    /\ <>(pc[1] = "binsrch_done")

\* the search returned the index of an element equal to the key that is
\* neither the first nor the last of four, after more than one turn
C26_Witness ==
    /\ pc[1] = "binsrch_done"
    /\ Len(pages[1].items) = 4
    /\ loc[1].itemno = 2
    /\ pages[1].items[3].tid = loc[1].key
    /\ loc[1].turns >= 2

\* C27: on a tree built by inserts, with no insert running: a call of
\* zsbt_scan_next that returns an item moves nexttid strictly up; a call that
\* goes back to read a page has moved to another page (it does not pick the
\* compressed run again whose stream just ended); a call on an exhausted scan
\* reports exhaustion and changes nothing; every call returns, and a scan
\* whose caller keeps calling becomes exhausted.
C27_ScanTerminates ==
    /\ [][/\ (scan.state = "begun" /\ scan.active /\ scan'.state = "begun"
               /\ pc'[1] = "idle") =>
                 \/ /\ ret'.found
                    /\ ItemPointerCompare(ret'.tid, scan.nexttid) >= 0
                    /\ ItemPointerCompare(scan'.nexttid, scan.nexttid) > 0
                    /\ scan'.active
                 \/ /\ ~ret'.found
                    /\ ret'.ok
                    /\ ~scan'.active
          /\ (scan.state = "begun" /\ scan.active /\ pc'[1] = "scan_page") =>
                 /\ scan'.lastbuf # scan.lastbuf
                 /\ scan'.nexttid = scan.nexttid
          /\ (scan.state = "begun" /\ ~scan.active /\ scan'.state = "begun") =>
                 /\ scan' = scan
                 /\ ~ret'.found
                 /\ ret'.ok]_vars
    /\ (pc[1] = "scan_page") ~> (pc[1] = "idle")
    /\ (scan.state = "begun") ~> (scan.state = "begun" /\ ~scan.active /\ pc[1] = "idle")

\* a scan from the first TID over several leaves, one of them holding a
\* compressed run, was told that it is exhausted after it returned every
\* stored item
C27_Witness ==
    /\ scan.state = "begun"
    /\ ~scan.active
    /\ pc[1] = "idle"
    /\ ret.op = "scan_next"
    /\ ~ret.found
    /\ scanLog.start = MinTid
    /\ \E b \in 1..nblocks : \E i \in 1..Len(pages[b].items) :
           pages[b].level = 0 /\ pages[b].items[i].comp /\ pages[b].next # InvalidBlockNumber
    /\ Len(scanLog.out) = Len(insLog)
    /\ Len(insLog) >= 6

====
